---- MODULE Spec2Model ----
(***************************************************************************)
(* Ghost Booster: the orchestrator (AsyncGhostBooster), its refill         *)
(* pipeline (hunt -> check -> load, serialized by an asyncio.Lock), the     *)
(* proxy pool, and the dispatcher (AsyncWorkerPool.run_cycle with its       *)
(* per-proxy worker tasks gated by an asyncio.Semaphore).                   *)
(*                                                                          *)
(* Everything runs on one asyncio event loop: a task runs without           *)
(* interruption from one await that really suspends to the next.  Each      *)
(* action below is one such uninterrupted segment.  The order in which      *)
(* ready tasks are resumed is left open.                                    *)
(***************************************************************************)
EXTENDS Integers, Sequences, FiniteSets, TLC

\* ---------------------------------------------------------------- bounds
MaxProxy == 1            \* distinct host:port keys the sources can yield
MaxTargets == 2          \* longest event_urls list
MaxSessions == 1         \* session files in the session directory
ConcurrencyLimit == 1    \* config.async_concurrency_limit, scaled down
CriticalThreshold == 2   \* config.proxy_pool_critical_threshold, scaled down
MaxKey == 2              \* distinct proxies a caller of the pool loads
MaxLoaded == 3           \* proxies a caller loads in all, and its calls of load
MaxAccounts == 2         \* session files when the session manager is driven alone
DailyLimit == 1          \* config.session_daily_limit, scaled down
MaxTime == 1             \* clock ticks
MaxHeader == 2           \* longest Set-Cookie header, in characters
MaxText == 3             \* longest embed page, in tokens
MaxSources == 2          \* sources of the hunter
MaxFetched == 3          \* proxies in the bodies the sources return, in all
MaxCandidates == 2       \* candidates handed to the health checker
MaxElapsed == 2          \* longest probe, in clock ticks
MaxName == 2             \* longest host, username and password, in characters
MaxJitter == 1           \* largest config.jitter_max_ms, scaled down
MaxCycles == 3           \* cycles a ProcessManager starts
MaxCallers == 2          \* threads that call the ProcessManager
MaxAttempts == 3         \* view attempts whose latency a report takes in
MaxLatency == 3          \* longest execute_view call, in milliseconds
MaxReacts == 2           \* calls of react_to_post in progress together
MaxFlood == 2            \* longest FloodWaitError.seconds, in clock ticks

Proxies == 1..MaxProxy
Sessions == 1..MaxSessions

VARIABLES
    stop_event,        \* asyncio.Event handed to run_continuous: is_set()
    event_urls,        \* number of targets in the event_urls list
    reaction_enabled,  \* config.reaction_enabled (a session manager exists)
    pool,              \* ProxyPool._pool: sequence of proxy keys, head first
    refill_lock,       \* AsyncGhostBooster._refill_lock: "free" or its holder
    refill_task,       \* AsyncGhostBooster._refill_task: [pc, raw, snap, cancel]
    mpc,               \* where the run_continuous coroutine is suspended
    mctx,              \* which call of _refill_pool it is in: initial / sync
    mraw,              \* raw_proxies of the refill run by run_continuous
    msnap,             \* the pool as that refill found it when it took the lock
    tasks,             \* run_cycle's tasks: how many workers are in each state
    semaphore,         \* run_cycle's asyncio.Semaphore: its free value
    report,            \* the CycleReport of the current (or last) cycle
    clients,           \* SessionManager._clients: connected session clients
    open_conns,        \* client connections on which disconnect() was not called
    initial_done,      \* the initial refill of this entry of _run_loop returned
    dispatched,        \* run_cycle has been called in this entry of _run_loop
    refill_exit,       \* the _refill_pool call that returned in the last step
    critical_threshold,\* ProxyPool._critical_threshold
    load_log,          \* the batches handed to ProxyPool.load so far, in order
    acquire_log,       \* every proxy ProxyPool.acquire returned so far, in order
    got,               \* what the last call of acquire returned, and from what
    sessions,          \* SessionManager._sessions: the SessionInfo list
    rr_index,          \* SessionManager._rr_index
    now,               \* time.time()
    today,             \* date.today()
    selected,          \* the last call of get_next_session: what it returned
    picks,             \* what the last calls of get_next_session in a row
                       \* returned, all sessions being eligible
    view,              \* one call of AsyncViewProtocol.execute_view
    net,               \* what the network answered to that call so far
    sources,           \* ProxyHunter._sources: the proxy_type of each source
    hunt,              \* one call of ProxyHunter.hunt_all
    candidates,        \* the list handed to ProxyHealthChecker.check_all
    check,             \* one call of check_all, with its probes
    codec,             \* a proxy, its ProxyFormatParser.format, the parse of that
    concurrency_limit, \* AsyncWorkerPool._concurrency_limit
    jitter_min_ms,     \* AsyncWorkerPool._jitter_min_ms
    jitter_max_ms,     \* AsyncWorkerPool._jitter_max_ms
    lock,              \* ProcessManager._lock: 0, or the caller that holds it
    current_cycle,     \* ProcessManager._current_cycle: 0 for None
    current_event,     \* StopEventController._current_event: 0 for None
    cycles,            \* every CycleState made so far, with its thread
    callers,           \* where each caller of the ProcessManager is
    latency,           \* CycleReport.avg_response_time_ms and the attempt
                       \* that was recorded last
    reacts,            \* per session, the react_to_post calls that hold it
                       \* and are suspended in the delay or the request
    telethon,          \* TelegramClient is not None: Telethon is installed
    revent,            \* what the reaction engine did in the last step
    feed,              \* one line of a source's body on its way through
                       \* _fetch_from_source
    wevent             \* what the worker did that ran in the last step of a
                       \* cycle that is watched

\* the state of the components when they are driven on their own
poolvars == <<critical_threshold, load_log, acquire_log, got>>
sessvars == <<sessions, rr_index, now, today, selected, picks>>
viewvars == <<view, net>>
huntvars == <<sources, hunt>>
checkvars == <<candidates, check>>
parsevars == <<codec>>
workvars == <<concurrency_limit, jitter_min_ms, jitter_max_ms>>
procvars == <<lock, current_cycle, current_event, cycles, callers>>
reactvars == <<reacts, telethon, revent>>
extravars == <<latency, reactvars, feed>>
morevars == <<huntvars, checkvars, parsevars, workvars, procvars, extravars>>
apivars == <<poolvars, sessvars, viewvars, morevars>>

vars == <<stop_event, event_urls, reaction_enabled, pool, refill_lock,
          refill_task, mpc, mctx, mraw, msnap, tasks, semaphore, report, clients,
          open_conns, initial_done, dispatched, refill_exit, wevent, apivars>>

\* ------------------------------------------------------------- proxy pool
\* faulty variant: load that keeps the whole pool sorted
load_sorted(p, batch) == SortSeq(p \o batch, LAMBDA a, b : a < b)

\* ProxyPool.load: the batch is appended at the tail
load(p, batch) == p \o batch

\* ProxyPool.is_empty
is_empty(p) == Len(p) = 0

\* faulty variant: a pool at the threshold counts as critical
is_critical_le(p) == Len(p) <= critical_threshold

\* ProxyPool.is_critical
is_critical(p) == Len(p) < critical_threshold

\* Python's None
None == 0

\* faulty variant: acquire that leaves the entry in the pool
acquire_keep(p) ==
    IF Len(p) = 0 THEN [proxy |-> None, pool |-> p]
    ELSE [proxy |-> Head(p), pool |-> p]

\* ProxyPool.acquire: None on an empty pool, else popleft; the result and
\* the pool it leaves
acquire(p) ==
    IF Len(p) = 0 THEN [proxy |-> None, pool |-> p]
    ELSE [proxy |-> Head(p), pool |-> Tail(p)]

\* ProxyPool.size
size(p) == Len(p)

\* ------------------------------------------------------- hunt and check
\* ProxyHunter.hunt_all returns a deduplicated list: a set of keys
HuntResults == SUBSET Proxies

\* all orderings of all subsets of S
Orderings(S) ==
    UNION { { f \in [1..n -> S] : \A i, j \in 1..n : f[i] = f[j] => i = j }
            : n \in 0..Cardinality(S) }

\* ProxyHealthChecker.check_all: the alive candidates, fastest first
CheckResults(raw) == Orderings(raw)

\* ------------------------------------------------------------ cycle report
\* CycleReport() with total_proxies set by run_cycle
NewReport(n) ==
    [total_proxies |-> n, successful_views |-> 0, failed_views |-> 0,
     views_per_url |-> [u \in 1..MaxTargets |-> 0]]

\* ----------------------------------------------------------- worker tasks
WSem == [pc |-> "sem", i |-> 0]      \* created, not yet past the semaphore
WDone == [pc |-> "done", i |-> 0]    \* task finished
WView(i) == [pc |-> "view", i |-> i]         \* awaiting execute_view for url i
WJitter(i) == [pc |-> "jitter", i |-> i]     \* jitter sleep before url i
WCallback(i) == [pc |-> "callback", i |-> i] \* awaiting on_view_success, url i
WCancelled == [pc |-> "cancelled", i |-> 0]  \* cancelled by run_cycle

WStates ==
    {WSem, WDone, WCancelled} \cup { WView(i) : i \in 1..MaxTargets }
                  \cup { WJitter(i) : i \in 2..MaxTargets }
                  \cup { WCallback(i) : i \in 1..MaxTargets }

NoTasks == [w \in WStates |-> 0]

\* no worker ran in the last step
NoEvent == [view |-> "none", callback |-> "not_called", url |-> 0,
            sleeps |-> FALSE, jitter |-> 0]

\* one worker moves from state a to state b
Move(t, a, b) == [[t EXCEPT ![a] = @ - 1] EXCEPT ![b] = @ + 1]

\* workers past the semaphore: inside "async with semaphore"
Active(t) == { w \in WStates : w.pc \in {"view", "jitter", "callback"} /\ t[w] > 0 }

RECURSIVE SumOver(_, _)
SumOver(f, S) ==
    IF S = {} THEN 0
    ELSE LET x == CHOOSE y \in S : TRUE IN f[x] + SumOver(f, S \ {x})

ActiveCount(t) == SumOver(t, Active(t))
TaskCount(t) == SumOver(t, WStates)
AllDone(t) == \A w \in WStates : w # WDone => t[w] = 0

\* run_cycle after asyncio.wait: "pending" are the tasks that wait returned
\* as not done; with the stop signal set each is cancelled and awaited
pending(t) == { w \in WStates : w \notin {WDone, WCancelled} /\ t[w] > 0 }

cancel_pending(t) ==
    [w \in WStates |->
        IF w = WCancelled THEN t[w] + SumOver(t, pending(t))
        ELSE IF w \in pending(t) THEN 0 ELSE t[w]]

\* ------------------------------------------------ refill task (background)
NoTask == [pc |-> "none", raw |-> {}, snap |-> <<>>, cancel |-> FALSE]
TaskDone(rt) == rt.pc = "done"

\* ------------------------------------------- the refill that just returned
NoExit == [by |-> "none", hunted |-> 0, checked |-> FALSE, healthy |-> 0,
           loaded |-> FALSE, before |-> <<>>, after |-> <<>>]

\* ---------------------------------------------------------- orchestrator
\* The coroutine state that run_continuous and what it calls can change, as
\* one record; the operators below map the record at one line of the code to
\* the record at the next await that suspends.
Here ==
    [mpc |-> mpc, mctx |-> mctx, mraw |-> mraw, msnap |-> msnap, pool |-> pool,
     refill_lock |-> refill_lock, refill_task |-> refill_task, tasks |-> tasks,
     semaphore |-> semaphore, report |-> report, clients |-> clients,
     open_conns |-> open_conns, initial_done |-> initial_done,
     dispatched |-> dispatched]

Becomes(s) ==
    /\ mpc' = s.mpc /\ mctx' = s.mctx /\ mraw' = s.mraw /\ msnap' = s.msnap
    /\ pool' = s.pool /\ refill_lock' = s.refill_lock
    /\ refill_task' = s.refill_task /\ tasks' = s.tasks
    /\ semaphore' = s.semaphore /\ report' = s.report /\ clients' = s.clients
    /\ open_conns' = s.open_conns /\ initial_done' = s.initial_done
    /\ dispatched' = s.dispatched

\* faulty variant: _shutdown that neither cancels nor awaits the refill task
shutdown_nocancel(s) ==
    IF reaction_enabled /\ s.clients # {}
    THEN [s EXCEPT !.mpc = "close_all"]
    ELSE [s EXCEPT !.mpc = "returned", !.clients = {}]

\* SessionManager.close_all as called by _shutdown: every client is
\* disconnected in turn (one await each), then the dictionaries are cleared
close_all(s) ==
    IF reaction_enabled /\ s.clients # {}
    THEN [s EXCEPT !.mpc = "close_all"]
    ELSE [s EXCEPT !.mpc = "returned", !.clients = {}]

\* AsyncGhostBooster._shutdown: cancel a refill task that is not done and
\* await it, then close the sessions
shutdown(s) ==
    IF s.refill_task.pc \notin {"none", "done"}
    THEN [s EXCEPT !.mpc = "shutdown_await", !.refill_task.cancel = TRUE]
    ELSE close_all(s)

\* faulty variant: _refill_pool without the lock
refill_enter_unlocked(s, ctx) ==
    [s EXCEPT !.mpc = "hunt", !.mctx = ctx, !.refill_lock = "main",
              !.msnap = s.pool]

\* "async with self._refill_lock" on entry of _refill_pool: asyncio.Lock is
\* taken at once when it is free and nobody waits for it, else the caller
\* queues
refill_enter(s, ctx) ==
    IF s.refill_lock = "free" /\ s.refill_task.pc # "lockwait"
    THEN [s EXCEPT !.mpc = "hunt", !.mctx = ctx, !.refill_lock = "main",
                   !.msnap = s.pool]
    ELSE [s EXCEPT !.mpc = "lockwait", !.mctx = ctx]

RECURSIVE run_loop_top(_)

\* faulty variant: run_cycle without its early return
run_cycle_call_noreturn(s) ==
    LET n == Len(s.pool)
        s1 == [s EXCEPT !.pool = <<>>, !.report = NewReport(n),
                        !.semaphore = concurrency_limit, !.tasks = NoTasks,
                        !.dispatched = TRUE]
    IN  IF stop_event
        THEN [s1 EXCEPT !.mpc = "cycle_return"]
        ELSE [s1 EXCEPT !.tasks = [NoTasks EXCEPT ![WSem] = n],
                        !.mpc = "cycle"]

\* AsyncWorkerPool.run_cycle up to its first await: drain the pool, set
\* total_proxies, return at once with no proxies or no targets, else create
\* one task per proxy unless the stop signal is set, and wait for the tasks
\* if there are any
run_cycle_call(s) ==
    LET n == Len(s.pool)
        s1 == [s EXCEPT !.pool = <<>>, !.report = NewReport(n),
                        !.semaphore = concurrency_limit, !.tasks = NoTasks,
                        !.dispatched = TRUE]
    IN  IF n = 0 \/ event_urls = 0 \/ stop_event
        THEN [s1 EXCEPT !.mpc = "cycle_return"]
        ELSE [s1 EXCEPT !.tasks = [NoTasks EXCEPT ![WSem] = n],
                        !.mpc = "cycle"]

\* run_cycle as awaited by _run_loop: when it returns at once _run_loop
\* goes round in the same step
run_cycle(s) ==
    LET r == run_cycle_call(s)
    IN  IF r.mpc = "cycle" THEN r ELSE run_loop_top(r)

\* faulty variant: _run_loop without the empty-pool test before run_cycle
iteration_body_nocheck(s) == run_cycle(s)

\* _run_loop from "if self._pool.is_empty()" (the second one) on: wait the
\* retry delay on an empty pool, else run a cycle
iteration_body(s) ==
    IF is_empty(s.pool)
    THEN [s EXCEPT !.mpc = "retry_wait"]
    ELSE run_cycle(s)

\* faulty variant: _run_loop with "while True"
run_loop_top_nostop(s) ==
    IF is_empty(s.pool) THEN refill_enter(s, "sync")
    ELSE IF is_critical(s.pool) /\ s.refill_task.pc \in {"none", "done"}
         THEN iteration_body([s EXCEPT !.refill_task =
                  [pc |-> "created", raw |-> {}, snap |-> <<>>, cancel |-> FALSE]])
         ELSE iteration_body(s)

\* faulty variant: _run_loop that launches the background refill on any
\* pool that is not empty
run_loop_top_eager(s) ==
    IF stop_event THEN shutdown(s)
    ELSE IF is_empty(s.pool) THEN refill_enter(s, "sync")
    ELSE IF s.refill_task.pc \in {"none", "done"}
         THEN iteration_body([s EXCEPT !.refill_task =
                  [pc |-> "created", raw |-> {}, snap |-> <<>>, cancel |-> FALSE]])
         ELSE iteration_body(s)

\* _run_loop at "while not stop_event.is_set()": leaving the loop returns
\* to run_continuous, whose own loop then ends too and runs _shutdown
run_loop_top(s) ==
    IF stop_event THEN shutdown(s)
    ELSE IF is_empty(s.pool) THEN refill_enter(s, "sync")
    ELSE IF is_critical(s.pool) /\ s.refill_task.pc \in {"none", "done"}
         THEN iteration_body([s EXCEPT !.refill_task =
                  [pc |-> "created", raw |-> {}, snap |-> <<>>, cancel |-> FALSE]])
         ELSE iteration_body(s)

\* faulty variant: _run_loop without its initial refill
run_continuous_top_norefill(s) ==
    IF stop_event THEN shutdown(s)
    ELSE run_loop_top([s EXCEPT !.initial_done = FALSE, !.dispatched = FALSE,
                                !.mctx = "sync"])

\* run_continuous at "while not stop_event.is_set()": enter _run_loop, which
\* starts with the initial refill
run_continuous_top(s) ==
    IF stop_event THEN shutdown(s)
    ELSE refill_enter([s EXCEPT !.initial_done = FALSE, !.dispatched = FALSE],
                      "initial")

\* _refill_pool returned to its caller in _run_loop
refill_return(s) ==
    IF s.mctx = "initial"
    THEN run_loop_top([s EXCEPT !.initial_done = TRUE])
    ELSE iteration_body(s)

\* faulty variant: run_continuous where an exception ends the loop
on_exception_fatal(s) == shutdown(s)

\* "except Exception" in run_continuous
on_exception(s) ==
    IF stop_event THEN shutdown(s) ELSE [s EXCEPT !.mpc = "restart_wait"]

\* faulty variant: _refill_pool without the test of the hunt result
hunt_never_short_circuits(raw) == FALSE

\* _refill_pool: "if not raw_proxies: return" right after hunt_all
hunt_short_circuits(raw) == raw = {}

\* the record a finished _refill_pool call leaves in refill_exit
ExitOf(who, raw, checked, healthy, loaded, before, after) ==
    [by |-> who, hunted |-> Cardinality(raw), checked |-> checked,
     healthy |-> healthy, loaded |-> loaded, before |-> before, after |-> after]

\* The event loop resumes a task that is ready before it handles network
\* results and timers that come later.  The refill task is ready when it
\* was just made by asyncio.create_task, and when the lock it queues for was
\* released (asyncio.Lock wakes its waiters first come first served, and
\* run_continuous, the only one who can have released it, is then behind).
\* Everything run_continuous and the workers wait for at that moment was
\* awaited after the task became ready, so the task goes first.
Started ==
    /\ refill_task.pc # "created"
    /\ ~(refill_task.pc = "lockwait" /\ refill_lock = "free")

\* ------------------------------------------------- run_continuous actions
\* run_continuous is called: SessionManager.initialize connects the clients
\* (some may fail to connect), then the loop is entered
Start ==
    /\ Started
    /\ mpc = "start"
    /\ \E C \in SUBSET Sessions :
         /\ reaction_enabled \/ C = {}
         /\ Becomes(run_continuous_top([Here EXCEPT !.clients = C, !.open_conns = C]))
    /\ refill_exit' = NoExit
    /\ wevent' = NoEvent
    /\ UNCHANGED <<apivars, stop_event, event_urls, reaction_enabled>>

\* the lock is released while run_continuous waits for it
MainLockAcquired ==
    /\ Started
    /\ mpc = "lockwait"
    /\ refill_lock = "free"
    /\ Becomes([Here EXCEPT !.mpc = "hunt", !.refill_lock = "main", !.msnap = pool])
    /\ refill_exit' = NoExit
    /\ wevent' = NoEvent
    /\ UNCHANGED <<apivars, stop_event, event_urls, reaction_enabled>>

\* hunt_all returns: nothing found ends the refill, else check_all is awaited
MainHuntDone ==
    /\ Started
    /\ mpc = "hunt"
    /\ \E raw \in HuntResults :
         IF hunt_short_circuits(raw)
         THEN /\ Becomes(refill_return([Here EXCEPT !.refill_lock = "free", !.mraw = {}]))
              /\ refill_exit' = ExitOf("main", raw, FALSE, 0, FALSE, msnap, pool)
         ELSE /\ Becomes([Here EXCEPT !.mpc = "check", !.mraw = raw])
              /\ refill_exit' = NoExit
    /\ wevent' = NoEvent
    /\ UNCHANGED <<apivars, stop_event, event_urls, reaction_enabled>>

\* check_all returns: nothing alive ends the refill, else the batch is loaded
MainCheckDone ==
    /\ Started
    /\ mpc = "check"
    /\ \E healthy \in CheckResults(mraw) :
         IF healthy = <<>>
         THEN /\ Becomes(refill_return([Here EXCEPT !.refill_lock = "free", !.mraw = {}]))
              /\ refill_exit' = ExitOf("main", mraw, TRUE, 0, FALSE, msnap, pool)
         ELSE /\ Becomes(refill_return([Here EXCEPT !.refill_lock = "free", !.mraw = {},
                                                    !.pool = load(pool, healthy)]))
              /\ refill_exit' = ExitOf("main", mraw, TRUE, Len(healthy), TRUE,
                                       msnap, load(pool, healthy))
    /\ wevent' = NoEvent
    /\ UNCHANGED <<apivars, stop_event, event_urls, reaction_enabled>>

\* hunt_all or check_all raises: the lock is released, _run_loop is left by
\* the exception and run_continuous catches it
MainRefillRaise ==
    /\ Started
    /\ mpc \in {"hunt", "check"}
    /\ Becomes(on_exception([Here EXCEPT !.refill_lock = "free", !.mraw = {}]))
    /\ refill_exit' = NoExit
    /\ wevent' = NoEvent
    /\ UNCHANGED <<apivars, stop_event, event_urls, reaction_enabled>>

\* wait_for(stop_event.wait(), retry_delay) ends because the stop signal is set
RetryWaitStopped ==
    /\ Started
    /\ mpc = "retry_wait"
    /\ stop_event
    /\ Becomes(run_loop_top(Here))
    /\ refill_exit' = NoExit
    /\ wevent' = NoEvent
    /\ UNCHANGED <<apivars, stop_event, event_urls, reaction_enabled>>

\* ... or because the retry delay is over: wait_for raises TimeoutError,
\* which "except TimeoutError" catches (asyncio's timeout error is the
\* builtin one, as from Python 3.11 on)
RetryWaitTimeout ==
    /\ Started
    /\ mpc = "retry_wait"
    /\ ~stop_event
    /\ Becomes(run_loop_top(Here))
    /\ refill_exit' = NoExit
    /\ wevent' = NoEvent
    /\ UNCHANGED <<apivars, stop_event, event_urls, reaction_enabled>>

\* wait_for(stop_event.wait(), RESTART_DELAY_SECONDS) ends by the stop signal
RestartWaitStopped ==
    /\ Started
    /\ mpc = "restart_wait"
    /\ stop_event
    /\ Becomes(run_continuous_top(Here))
    /\ refill_exit' = NoExit
    /\ wevent' = NoEvent
    /\ UNCHANGED <<apivars, stop_event, event_urls, reaction_enabled>>

\* ... or by the timeout
RestartWaitTimeout ==
    /\ Started
    /\ mpc = "restart_wait"
    /\ ~stop_event
    /\ Becomes(run_continuous_top(Here))
    /\ refill_exit' = NoExit
    /\ wevent' = NoEvent
    /\ UNCHANGED <<apivars, stop_event, event_urls, reaction_enabled>>

\* faulty variant: run_cycle that waits for the first task only and never
\* cancels the others
CycleDone_first_completed ==
    /\ Started
    /\ mpc = "cycle"
    /\ tasks[WDone] > 0
    /\ Becomes(run_loop_top(Here))
    /\ refill_exit' = NoExit
    /\ wevent' = NoEvent
    /\ UNCHANGED <<apivars, stop_event, event_urls, reaction_enabled>>

\* asyncio.wait(tasks, ALL_COMPLETED) returns, which it does when every
\* task is done: with the stop signal set the pending tasks are cancelled
\* and awaited, the report is logged and _run_loop goes round
CycleDone ==
    /\ Started
    /\ mpc = "cycle"
    /\ AllDone(tasks)
    /\ Becomes(run_loop_top([Here EXCEPT !.tasks =
            IF stop_event /\ pending(tasks) # {} THEN cancel_pending(tasks)
            ELSE tasks]))
    /\ refill_exit' = NoExit
    /\ wevent' = NoEvent
    /\ UNCHANGED <<apivars, stop_event, event_urls, reaction_enabled>>

\* _shutdown: the cancelled refill task has ended
ShutdownAwaited ==
    /\ Started
    /\ mpc = "shutdown_await"
    /\ TaskDone(refill_task)
    /\ Becomes(close_all(Here))
    /\ refill_exit' = NoExit
    /\ wevent' = NoEvent
    /\ UNCHANGED <<apivars, stop_event, event_urls, reaction_enabled>>

\* the client whose disconnect() close_all awaits
Closing == CHOOSE c \in clients \cap open_conns :
               \A d \in clients \cap open_conns : c <= d

\* close_all: one disconnect() is over, cleanly or by an exception that is
\* logged; the loop goes on, and after the last client the dictionaries are
\* cleared
close_step(s, c, raised) ==
    LET s1 == [s EXCEPT !.open_conns = @ \ {c}]
    IN  IF s1.clients \cap s1.open_conns = {}
        THEN [s1 EXCEPT !.mpc = "returned", !.clients = {}]
        ELSE s1

DisconnectDone ==
    /\ Started
    /\ mpc = "close_all"
    /\ \E raised \in BOOLEAN : Becomes(close_step(Here, Closing, raised))
    /\ refill_exit' = NoExit
    /\ wevent' = NoEvent
    /\ UNCHANGED <<apivars, stop_event, event_urls, reaction_enabled>>

\* the caller's bridge task sets the stop signal
SetStop ==
    /\ ~stop_event
    /\ mpc # "returned"
    /\ stop_event' = TRUE
    /\ refill_exit' = NoExit
    /\ wevent' = NoEvent
    /\ UNCHANGED <<apivars, event_urls, reaction_enabled, pool, refill_lock,
                   refill_task, mpc, mctx, mraw, msnap, tasks, semaphore, report, clients,
                   open_conns, initial_done, dispatched>>

\* ---------------------------------------------- background refill task
MainFrame == <<mpc, mctx, mraw, msnap, tasks, semaphore, report, clients,
               open_conns, initial_done, dispatched>>

\* faulty variant: the task runs _refill_pool without the lock
BgStart_unlocked ==
    /\ refill_task.pc = "created"
    /\ ~refill_task.cancel
    /\ refill_task' = [refill_task EXCEPT !.pc = "hunt", !.snap = pool]
    /\ refill_lock' = "bg"
    /\ refill_exit' = NoExit
    /\ wevent' = NoEvent
    /\ UNCHANGED <<apivars, stop_event, event_urls, reaction_enabled, pool, MainFrame>>

\* the task created by _run_loop runs for the first time: _refill_pool takes
\* the lock or queues for it
BgStart ==
    /\ refill_task.pc = "created"
    /\ ~refill_task.cancel
    /\ IF refill_lock = "free" /\ mpc # "lockwait"
       THEN /\ refill_task' = [refill_task EXCEPT !.pc = "hunt", !.snap = pool]
            /\ refill_lock' = "bg"
       ELSE /\ refill_task' = [refill_task EXCEPT !.pc = "lockwait"]
            /\ UNCHANGED refill_lock
    /\ refill_exit' = NoExit
    /\ wevent' = NoEvent
    /\ UNCHANGED <<apivars, stop_event, event_urls, reaction_enabled, pool, MainFrame>>

\* the lock is released while the task waits for it
BgLockAcquired ==
    /\ refill_task.pc = "lockwait"
    /\ ~refill_task.cancel
    /\ refill_lock = "free"
    /\ refill_task' = [refill_task EXCEPT !.pc = "hunt", !.snap = pool]
    /\ refill_lock' = "bg"
    /\ refill_exit' = NoExit
    /\ wevent' = NoEvent
    /\ UNCHANGED <<apivars, stop_event, event_urls, reaction_enabled, pool, MainFrame>>

\* hunt_all returns in the task
BgHuntDone ==
    /\ refill_task.pc = "hunt"
    /\ ~refill_task.cancel
    /\ \E raw \in HuntResults :
         IF hunt_short_circuits(raw)
         THEN /\ refill_task' = [refill_task EXCEPT !.pc = "done", !.raw = {}]
              /\ refill_lock' = "free"
              /\ refill_exit' = ExitOf("bg", raw, FALSE, 0, FALSE, refill_task.snap, pool)
         ELSE /\ refill_task' = [refill_task EXCEPT !.pc = "check", !.raw = raw]
              /\ refill_exit' = NoExit
              /\ UNCHANGED refill_lock
    /\ wevent' = NoEvent
    /\ UNCHANGED <<apivars, stop_event, event_urls, reaction_enabled, pool, MainFrame>>

\* check_all returns in the task
BgCheckDone ==
    /\ refill_task.pc = "check"
    /\ ~refill_task.cancel
    /\ \E healthy \in CheckResults(refill_task.raw) :
         IF healthy = <<>>
         THEN /\ UNCHANGED pool
              /\ refill_exit' = ExitOf("bg", refill_task.raw, TRUE, 0, FALSE,
                                       refill_task.snap, pool)
         ELSE /\ pool' = load(pool, healthy)
              /\ refill_exit' = ExitOf("bg", refill_task.raw, TRUE, Len(healthy), TRUE,
                                       refill_task.snap, load(pool, healthy))
    /\ refill_task' = [refill_task EXCEPT !.pc = "done", !.raw = {}]
    /\ refill_lock' = "free"
    /\ wevent' = NoEvent
    /\ UNCHANGED <<apivars, stop_event, event_urls, reaction_enabled, MainFrame>>

\* faulty variant: an exception in the task leaves the lock taken
BgRefillRaise_keeps_lock ==
    /\ refill_task.pc \in {"hunt", "check"}
    /\ ~refill_task.cancel
    /\ refill_task' = [refill_task EXCEPT !.pc = "done", !.raw = {}]
    /\ refill_exit' = NoExit
    /\ wevent' = NoEvent
    /\ UNCHANGED <<apivars, stop_event, event_urls, reaction_enabled, pool,
                   refill_lock, MainFrame>>

\* hunt_all or check_all raises in the task: the lock is released and the
\* exception stays in the finished task
BgRefillRaise ==
    /\ refill_task.pc \in {"hunt", "check"}
    /\ ~refill_task.cancel
    /\ refill_task' = [refill_task EXCEPT !.pc = "done", !.raw = {}]
    /\ refill_lock' = "free"
    /\ refill_exit' = NoExit
    /\ wevent' = NoEvent
    /\ UNCHANGED <<apivars, stop_event, event_urls, reaction_enabled, pool, MainFrame>>

\* the task cancelled by _shutdown gets CancelledError at the await it is
\* suspended in (or never starts); "async with" releases the lock it holds
BgCancelled ==
    /\ refill_task.cancel
    /\ refill_task.pc \notin {"none", "done"}
    /\ refill_task' = [refill_task EXCEPT !.pc = "done", !.raw = {}]
    /\ refill_lock' = IF refill_lock = "bg" THEN "free" ELSE refill_lock
    /\ refill_exit' = NoExit
    /\ wevent' = NoEvent
    /\ UNCHANGED <<apivars, stop_event, event_urls, reaction_enabled, pool, MainFrame>>

\* ------------------------------------------------------- worker actions
OrchFrame == <<apivars, stop_event, event_urls, reaction_enabled, pool, refill_lock,
               refill_task, mpc, mctx, mraw, msnap, clients, open_conns,
               initial_done, dispatched>>

\* faulty variant: workers that do not wait for the semaphore
can_acquire_always(v) == TRUE

\* asyncio.Semaphore.acquire succeeds when the value is positive
can_acquire(v) == v > 0

\* faulty variant: a worker that stops after its first url
next_url_first_only(i) == WDone

\* _worker after the attempt on url i: the loop ends after the last url or
\* on the stop signal, else the jitter sleep of the next url starts
next_url(i) ==
    IF i = event_urls \/ stop_event THEN WDone ELSE WJitter(i + 1)

\* faulty variant: a worker that forgets the per-url count
record_view_nourl(r, i, success) ==
    IF success
    THEN [r EXCEPT !.successful_views = @ + 1]
    ELSE [r EXCEPT !.failed_views = @ + 1]

\* the worker's updates of the shared report after execute_view returned
record_view(r, i, success) ==
    IF success
    THEN [r EXCEPT !.successful_views = @ + 1, !.views_per_url[i] = @ + 1]
    ELSE [r EXCEPT !.failed_views = @ + 1]

\* a worker gets past the semaphore and starts on the first url (no jitter);
\* with the stop signal set it returns at once
WorkerStart ==
    /\ Started
    /\ tasks[WSem] > 0
    /\ can_acquire(semaphore)
    /\ IF stop_event
       THEN /\ tasks' = Move(tasks, WSem, WDone)
            /\ UNCHANGED semaphore
       ELSE /\ tasks' = Move(tasks, WSem, WView(1))
            /\ semaphore' = semaphore - 1
    /\ refill_exit' = NoExit
    /\ wevent' = NoEvent
    /\ UNCHANGED <<OrchFrame, report>>

\* the jitter sleep before url i is over
WorkerJitterDone ==
    /\ Started
    /\ \E i \in 2..MaxTargets :
         /\ tasks[WJitter(i)] > 0
         /\ IF stop_event
            THEN /\ tasks' = Move(tasks, WJitter(i), WDone)
                 /\ semaphore' = semaphore + 1
            ELSE /\ tasks' = Move(tasks, WJitter(i), WView(i))
                 /\ UNCHANGED semaphore
    /\ refill_exit' = NoExit
    /\ wevent' = NoEvent
    /\ UNCHANGED <<OrchFrame, report>>

\* faulty variant: a delay drawn from a range one millisecond too wide
uniform_wide(a, b) == IF a <= b THEN a..(b + 1) ELSE b..(a + 1)

\* random.uniform(a, b), in milliseconds: a value between the two ends
uniform(a, b) == IF a <= b THEN a..b ELSE b..a

\* what awaiting on_view_success does: it is awaited only after a successful
\* view and when a callback was handed to run_cycle; it then returns or
\* raises at once, or suspends (the orchestrator's callback suspends in
\* react_to_post)
callback_outcomes(success) ==
    IF success /\ reaction_enabled THEN {"returned", "raised", "suspended"}
    ELSE {"not_called"}

\* faulty variant: a failing callback makes the attempt count as failed
on_callback_error_counted(r) == [r EXCEPT !.failed_views = @ + 1]

\* the except branch around "await on_view_success": the exception is logged
on_callback_error(r) == r

\* the event a worker step leaves: the outcome of the view it finished, what
\* the callback did, and the jitter sleep it started
WorkerEvent(viewed, cb, i, to, d) ==
    [view |-> viewed, callback |-> cb, url |-> i, sleeps |-> to.pc = "jitter",
     jitter |-> IF to.pc = "jitter" THEN d ELSE 0]

\* execute_view for url i is over (False also stands for the except branch
\* of the worker); on success the callback, when there is one, is awaited;
\* unless that suspends the worker goes on to the next url, for which it
\* draws its jitter delay; watched tells whether the step is recorded in wevent
ViewDone(watched) ==
    /\ Started
    /\ \E i \in 1..MaxTargets, success \in BOOLEAN :
       \E cb \in callback_outcomes(success),
          d \in uniform(jitter_min_ms, jitter_max_ms) :
         /\ tasks[WView(i)] > 0
         /\ report' = IF cb = "raised"
                      THEN on_callback_error(record_view(report, i, success))
                      ELSE record_view(report, i, success)
         /\ LET to == IF cb = "suspended" THEN WCallback(i) ELSE next_url(i)
            IN  /\ tasks' = Move(tasks, WView(i), to)
                /\ semaphore' = IF to = WDone THEN semaphore + 1 ELSE semaphore
                /\ wevent' = IF watched
                             THEN WorkerEvent(IF success THEN "success"
                                              ELSE "failure", cb, i, to, d)
                             ELSE NoEvent
    /\ refill_exit' = NoExit
    /\ UNCHANGED OrchFrame

\* a worker of a cycle of the orchestrator, and a worker of a cycle that is
\* called directly and watched
WorkerViewDone == ViewDone(FALSE)
WatchedViewDone == ViewDone(TRUE)

\* on_view_success is over, normally or by an exception that is swallowed
CallbackDone(watched) ==
    /\ Started
    /\ \E i \in 1..MaxTargets, cb \in {"returned", "raised"},
          d \in uniform(jitter_min_ms, jitter_max_ms) :
         /\ tasks[WCallback(i)] > 0
         /\ tasks' = Move(tasks, WCallback(i), next_url(i))
         /\ semaphore' = IF next_url(i) = WDone THEN semaphore + 1 ELSE semaphore
         /\ report' = IF cb = "raised" THEN on_callback_error(report) ELSE report
         /\ wevent' = IF watched THEN WorkerEvent("none", cb, i, next_url(i), d)
                       ELSE NoEvent
    /\ refill_exit' = NoExit
    /\ UNCHANGED OrchFrame

WorkerCallbackDone == CallbackDone(FALSE)
WatchedCallbackDone == CallbackDone(TRUE)

\* ------------------------------------------- run_cycle called directly
\* run_cycle is a public method: a caller other than _run_loop hands it a
\* pool, a target list and a stop signal of its choice
DirectCall ==
    /\ mpc = "caller"
    /\ LET r == run_cycle_call(Here)
       IN  Becomes([r EXCEPT !.mpc = IF r.mpc = "cycle" THEN "cycle"
                                     ELSE "caller_done"])
    /\ refill_exit' = NoExit
    /\ wevent' = NoEvent
    /\ UNCHANGED <<apivars, stop_event, event_urls, reaction_enabled>>

\* asyncio.wait returns in a directly called run_cycle, which returns the
\* report to its caller
DirectReturn ==
    /\ mpc = "cycle"
    /\ AllDone(tasks)
    /\ Becomes([Here EXCEPT !.mpc = "caller_done", !.tasks =
            IF stop_event /\ pending(tasks) # {} THEN cancel_pending(tasks)
            ELSE tasks])
    /\ refill_exit' = NoExit
    /\ wevent' = NoEvent
    /\ UNCHANGED <<apivars, stop_event, event_urls, reaction_enabled>>

\* no call of the pool's methods is recorded
NoGot == [proxy |-> None, before |-> <<>>, streak |-> 0, hits |-> 0, start |-> 0]

\* the components that the specification at hand does not drive
PoolIdle ==
    /\ critical_threshold = CriticalThreshold
    /\ load_log = <<>> /\ acquire_log = <<>> /\ got = NoGot

\* no call of get_next_session is recorded
NoSelection == [called |-> FALSE, ret |-> None, eligible |-> {}]

SessIdle ==
    /\ sessions = <<>> /\ rr_index = 0 /\ now = 0 /\ today = 0
    /\ selected = NoSelection /\ picks = <<>>

\* an optional string: None, or the characters of a str
NoStr == [none |-> TRUE, str |-> <<>>]
Str(x) == [none |-> FALSE, str |-> x]

\* execute_view is not called
NoView == [pc |-> "idle", cookie |-> NoStr, view_key |-> NoStr, log |-> <<>>,
           result |-> "pending"]
NoNet == [connector |-> "none", header |-> [kind |-> "none", str |-> <<>>],
          text |-> [kind |-> "none", str |-> <<>>], status |-> "none"]

ViewIdle == view = NoView /\ net = NoNet

\* hunt_all is not called
NoHunt == [pc |-> "idle", i |-> 0, fetched |-> <<>>, all_proxies |-> <<>>,
           unique |-> <<>>]

HuntIdle == sources = <<>> /\ hunt = NoHunt

\* check_all is not called
NoCheck == [pc |-> "idle", probes |-> <<>>, alive |-> <<>>, healthy |-> <<>>]

CheckIdle == candidates = <<>> /\ check = NoCheck

\* parse returned None
NoProxy == [none |-> TRUE, protocol |-> "", host |-> <<>>, port |-> 0,
            username |-> NoStr, password |-> NoStr]

\* the parser is not called
NoCodec == [pc |-> "idle", proxy |-> NoProxy, line |-> <<>>, parsed |-> NoProxy]

ParseIdle == codec = NoCodec

\* the worker pool as the orchestrator configures it
WorkIdle ==
    /\ concurrency_limit = ConcurrencyLimit
    /\ jitter_min_ms = MaxJitter /\ jitter_max_ms = MaxJitter

\* a caller that is in no call of the ProcessManager
NoCaller == [pc |-> "idle", op |-> "none", joined |-> 0]

\* the ProcessManager after __init__
ProcIdle ==
    /\ lock = 0 /\ current_cycle = 0 /\ current_event = 0
    /\ cycles = <<>>
    /\ callers = [c \in 1..MaxCallers |-> NoCaller]

\* milliseconds are counted in units of 1/Scale, which keeps every average
\* of up to MaxAttempts attempts a whole number
Scale == 2 ^ MaxAttempts

\* a new CycleReport, no attempt recorded yet
NoLatency == [avg_response_time_ms |-> 0, successful_views |-> 0,
              failed_views |-> 0, outcome |-> "none",
              old_avg |-> 0, elapsed_ms |-> 0]

LatencyIdle == latency = NoLatency

\* the reaction engine did nothing in the last step
NoReact == [op |-> "none", session |-> 0, available |-> FALSE,
            outcome |-> "none", result |-> "none", seconds |-> 0,
            before |-> 0]

ReactIdle == reacts = <<>> /\ telethon = TRUE /\ revent = NoReact

\* no line of a source is being read
NoFeed == [pc |-> "idle", proxy_type |-> "", line |-> <<>>,
           parsed |-> NoProxy, proxy |-> NoProxy]

FeedIdle == feed = NoFeed

ExtraIdle == LatencyIdle /\ ReactIdle /\ FeedIdle

MoreIdle == HuntIdle /\ CheckIdle /\ ParseIdle /\ WorkIdle /\ ProcIdle /\ ExtraIdle

\* pools a caller can hand over: any keys in any order, repeats included
CallerPools == UNION { [1..n -> Proxies] : n \in 0..(MaxProxy + 1) }

CycleInit ==
    /\ stop_event \in BOOLEAN
    /\ event_urls \in 0..MaxTargets
    /\ reaction_enabled \in BOOLEAN
    /\ pool \in CallerPools
    /\ refill_lock = "free"
    /\ refill_task = NoTask
    /\ mpc = "caller"
    /\ mctx = "initial"
    /\ mraw = {}
    /\ msnap = <<>>
    /\ tasks = NoTasks
    /\ semaphore = ConcurrencyLimit
    /\ report = NewReport(0)
    /\ clients = {}
    /\ open_conns = {}
    /\ initial_done = FALSE
    /\ dispatched = FALSE
    /\ refill_exit = NoExit
    /\ wevent = NoEvent
    /\ PoolIdle /\ SessIdle /\ ViewIdle
    /\ HuntIdle /\ CheckIdle /\ ParseIdle /\ ProcIdle /\ ExtraIdle
    /\ concurrency_limit \in 1..(ConcurrencyLimit + 1)
    /\ jitter_min_ms \in 0..MaxJitter
    /\ jitter_max_ms \in jitter_min_ms..MaxJitter

\* ------------------------------------------------------- specification
Init ==
    /\ stop_event = FALSE
    /\ event_urls \in 0..MaxTargets
    /\ reaction_enabled \in BOOLEAN
    /\ pool = <<>>
    /\ refill_lock = "free"
    /\ refill_task = NoTask
    /\ mpc = "start"
    /\ mctx = "initial"
    /\ mraw = {}
    /\ msnap = <<>>
    /\ tasks = NoTasks
    /\ semaphore = ConcurrencyLimit
    /\ report = NewReport(0)
    /\ clients = {}
    /\ open_conns = {}
    /\ initial_done = FALSE
    /\ dispatched = FALSE
    /\ refill_exit = NoExit
    /\ wevent = NoEvent
    /\ PoolIdle /\ SessIdle /\ ViewIdle /\ MoreIdle

Main ==
    \/ Start \/ MainLockAcquired \/ MainHuntDone \/ MainCheckDone
    \/ MainRefillRaise \/ RetryWaitStopped \/ RetryWaitTimeout
    \/ RestartWaitStopped \/ RestartWaitTimeout \/ CycleDone
    \/ ShutdownAwaited \/ DisconnectDone

Background ==
    \/ BgStart \/ BgLockAcquired \/ BgHuntDone \/ BgCheckDone
    \/ BgRefillRaise \/ BgCancelled

Workers ==
    \/ WorkerStart \/ WorkerJitterDone \/ WorkerViewDone \/ WorkerCallbackDone

Next == Main \/ Background \/ Workers \/ SetStop

Spec == Init /\ [][Next]_vars

\* the same steps, with the fairness the event loop gives: a task that can
\* be resumed is resumed, and every network call and sleep comes to an end
FairSpec ==
    Spec /\ WF_vars(Main) /\ WF_vars(Background) /\ WF_vars(Workers)

\* ------------------------------------------ the pool driven on its own
\* the orchestrator and the dispatcher are not running
OrchIdle ==
    /\ stop_event = FALSE
    /\ event_urls = 0
    /\ reaction_enabled = FALSE
    /\ refill_lock = "free"
    /\ refill_task = NoTask
    /\ mpc = "unused"
    /\ mctx = "initial"
    /\ mraw = {}
    /\ msnap = <<>>
    /\ tasks = NoTasks
    /\ semaphore = ConcurrencyLimit
    /\ report = NewReport(0)
    /\ clients = {}
    /\ open_conns = {}
    /\ initial_done = FALSE
    /\ dispatched = FALSE
    /\ refill_exit = NoExit
    /\ wevent = NoEvent

OrchRest == <<stop_event, event_urls, reaction_enabled, refill_lock,
              refill_task, mpc, mctx, mraw, msnap, tasks, semaphore, report,
              clients, open_conns, initial_done, dispatched, refill_exit,
              wevent>>

\* the keys of the proxies a caller loads, and the lists it hands to load
PoolKeys == 1..MaxKey
Batches == UNION { [1..n -> PoolKeys] : n \in 0..MaxLoaded }

RECURSIVE Concat(_)
Concat(ss) == IF ss = <<>> THEN <<>> ELSE Head(ss) \o Concat(Tail(ss))

\* a caller calls ProxyPool.load
PoolLoad ==
    /\ Len(load_log) < MaxLoaded
    /\ \E batch \in Batches :
         /\ Len(Concat(load_log)) + Len(batch) <= MaxLoaded
         /\ pool' = load(pool, batch)
         /\ load_log' = Append(load_log, batch)
    /\ got' = NoGot
    /\ UNCHANGED <<critical_threshold, acquire_log, OrchRest, sessvars, viewvars, morevars>>

\* a caller calls ProxyPool.acquire; got also counts the calls made in a
\* row, the proxies they returned, and the size of the pool before the first
PoolAcquire ==
    /\ got.streak <= MaxLoaded
    /\ LET r == acquire(pool)
       IN  /\ pool' = r.pool
           /\ acquire_log' = IF r.proxy = None THEN acquire_log
                              ELSE Append(acquire_log, r.proxy)
           /\ got' = [proxy |-> r.proxy, before |-> pool,
                      streak |-> got.streak + 1,
                      hits |-> got.hits + (IF r.proxy = None THEN 0 ELSE 1),
                      start |-> IF got.streak = 0 THEN size(pool) ELSE got.start]
    /\ UNCHANGED <<critical_threshold, load_log, OrchRest, sessvars, viewvars, morevars>>

PoolInit ==
    /\ OrchIdle
    /\ critical_threshold \in 0..CriticalThreshold
    /\ pool = <<>>
    /\ load_log = <<>> /\ acquire_log = <<>> /\ got = NoGot
    /\ SessIdle /\ ViewIdle /\ MoreIdle

PoolNext == PoolLoad \/ PoolAcquire

PoolSpec == PoolInit /\ [][PoolNext]_vars

\* --------------------------------- the session manager driven on its own
\* SessionInfo as initialize makes it; is_active is cleared when the client
\* fails to connect
NewSession(active) ==
    [is_active |-> active, cooldown_until |-> 0, daily_reaction_count |-> 0,
     daily_limit |-> DailyLimit, last_reset_date |-> 0]

\* faulty variant: the rotation index is not advanced
next_rr_stuck(rr, n) == rr % n

\* get_next_session: self._rr_index = (self._rr_index + 1) % n
next_rr(rr, n) == (rr + 1) % n

\* faulty variant: the date is stamped and the count is kept
day_reset_date_only(s, d) ==
    IF s.last_reset_date # d THEN [s EXCEPT !.last_reset_date = d] ELSE s

\* get_next_session: the reset of the daily count on a change of date
day_reset(s, d) ==
    IF s.last_reset_date # d
    THEN [s EXCEPT !.daily_reaction_count = 0, !.last_reset_date = d]
    ELSE s

\* faulty variant: the cooldown is not looked at
in_cooldown_never(s, t) == FALSE

\* get_next_session: "if session.cooldown_until > now"
in_cooldown(s, t) == s.cooldown_until > t

\* get_next_session: "if session.daily_reaction_count >= session.daily_limit"
at_limit(s) == s.daily_reaction_count >= s.daily_limit

\* the for loop of get_next_session with k passes left; lists are indexed
\* from 1 here, so the session looked at is number rr % n + 1
RECURSIVE scan(_, _, _, _, _)
scan(ss, rr, k, t, d) ==
    IF k = 0 THEN [sessions |-> ss, rr_index |-> rr, ret |-> None]
    ELSE LET n == Len(ss)
             idx == (rr % n) + 1
             rr1 == next_rr(rr, n)
         IN  IF ~ss[idx].is_active THEN scan(ss, rr1, k - 1, t, d)
             ELSE LET ss1 == [ss EXCEPT ![idx] = day_reset(@, d)]
                  IN  IF in_cooldown(ss1[idx], t) THEN scan(ss1, rr1, k - 1, t, d)
                      ELSE IF at_limit(ss1[idx]) THEN scan(ss1, rr1, k - 1, t, d)
                      ELSE [sessions |-> ss1, rr_index |-> rr1, ret |-> idx]

\* SessionManager.get_next_session: the sessions and the index it leaves,
\* and the session it returns (None for none)
get_next_session(ss, rr, t, d) ==
    IF ss = <<>> THEN [sessions |-> ss, rr_index |-> rr, ret |-> None]
    ELSE scan(ss, rr, Len(ss), t, d)

\* DEFAULT_COOLDOWN_SECONDS, the clock ticking once per cooldown
Cooldown == 1

\* the last n entries of a sequence
LastN(q, n) == IF Len(q) <= n THEN q ELSE SubSeq(q, Len(q) - n + 1, Len(q))

\* a session that may be used now: active, out of cooldown, and under its
\* daily limit, where the count of an earlier date counts as zero
Eligible(s) ==
    /\ s.is_active
    /\ s.cooldown_until <= now
    /\ (IF s.last_reset_date = today THEN s.daily_reaction_count ELSE 0)
          < s.daily_limit

SessFrame == <<pool, poolvars, viewvars, morevars, OrchRest>>

\* a caller awaits get_next_session
SessGetNext ==
    /\ LET r == get_next_session(sessions, rr_index, now, today)
       IN  /\ sessions' = r.sessions
           /\ rr_index' = r.rr_index
           /\ selected' = [called |-> TRUE, ret |-> r.ret,
                           eligible |-> { i \in 1..Len(sessions) :
                                            Eligible(sessions[i]) }]
           /\ picks' = IF \A i \in 1..Len(sessions) : Eligible(sessions[i])
                       THEN LastN(Append(picks, r.ret), Len(sessions))
                       ELSE <<>>
    /\ UNCHANGED <<now, today, SessFrame>>

\* mark_cooldown(session, duration)
SessMarkCooldown ==
    /\ \E i \in 1..Len(sessions) :
         sessions' = [sessions EXCEPT ![i].cooldown_until = now + Cooldown]
    /\ picks' = <<>>
    /\ UNCHANGED <<rr_index, now, today, selected, SessFrame>>

\* increment_reaction_count(session)
SessIncrement ==
    /\ \E i \in 1..Len(sessions) :
         /\ sessions[i].daily_reaction_count <= DailyLimit
         /\ sessions' = [sessions EXCEPT ![i].daily_reaction_count = @ + 1]
    /\ picks' = <<>>
    /\ UNCHANGED <<rr_index, now, today, selected, SessFrame>>

\* time passes
SessTick ==
    /\ now < MaxTime
    /\ now' = now + 1
    /\ picks' = <<>>
    /\ UNCHANGED <<sessions, rr_index, today, selected, SessFrame>>

\* time passes and with it the date changes
SessNextDay ==
    /\ now < MaxTime
    /\ now' = now + 1
    /\ today' = today + 1
    /\ picks' = <<>>
    /\ UNCHANGED <<sessions, rr_index, selected, SessFrame>>

SessInit ==
    /\ OrchIdle /\ pool = <<>> /\ PoolIdle /\ ViewIdle /\ MoreIdle
    /\ \E n \in 0..MaxAccounts :
         sessions \in [1..n -> { NewSession(a) : a \in BOOLEAN }]
    /\ rr_index = 0 /\ now = 0 /\ today = 0
    /\ selected = NoSelection /\ picks = <<>>

SessNext ==
    SessGetNext \/ SessMarkCooldown \/ SessIncrement \/ SessTick \/ SessNextDay

SessSpec == SessInit /\ [][SessNext]_vars

\* ------------------------------------ the view protocol driven on its own
\* Set-Cookie headers: strings of an ordinary character and the semicolon
Headers == UNION { [1..n -> {"a", ";"}] : n \in 0..MaxHeader }

\* embed pages as token lists: M is the marker data-view=", q a double
\* quote, k any other character
Texts == UNION { [1..n -> {"M", "q", "k"}] : n \in 0..MaxText }

\* what the server can answer to the register request
Statuses == {"200", "403", "500"}

\* str.split(sep)[0]: what comes before the first separator
RECURSIVE before_first(_, _)
before_first(x, sep) ==
    IF x = <<>> \/ Head(x) = sep THEN <<>>
    ELSE <<Head(x)>> \o before_first(Tail(x), sep)

\* what comes after the first separator; only called when there is one
RECURSIVE after_first(_, _)
after_first(x, sep) ==
    IF Head(x) = sep THEN Tail(x) ELSE after_first(Tail(x), sep)

contains(x, c) == \E i \in 1..Len(x) : x[i] = c

\* faulty variant: an empty cookie is passed on
fetch_page_and_cookie_unchecked(answer) ==
    IF answer.kind = "raise" THEN NoStr
    ELSE Str(before_first(answer.str, ";"))

\* _fetch_page_and_cookie: headers.get("set-cookie", "").split(";")[0], None
\* when that is empty or when the request raises
fetch_page_and_cookie(answer) ==
    IF answer.kind = "raise" THEN NoStr
    ELSE LET cookie == before_first(answer.str, ";")
         IN  IF cookie = <<>> THEN NoStr ELSE Str(cookie)

\* _fetch_view_key: None without the marker, else
\* text.split(marker)[1].split('"')[0], None when that is empty or when the
\* request raises
fetch_view_key(answer) ==
    IF answer.kind = "raise" THEN NoStr
    ELSE IF ~contains(answer.str, "M") THEN NoStr
    ELSE LET key == before_first(before_first(after_first(answer.str, "M"), "M"), "q")
         IN  IF key = <<>> THEN NoStr ELSE Str(key)

\* faulty variant: a status other than 200 counts as a failure
register_view_checked(answer) == answer = "200"

\* _register_view: True once the response was read, whatever its status
register_view(answer) == answer # "raise"

\* execute_view, "except Exception: return False"
on_view_exception == "failure"

ViewFrame == <<pool, poolvars, sessvars, morevars, OrchRest>>

\* execute_view is called: the connector and the client session are made,
\* which may raise, and the first request is sent
ViewCall ==
    /\ view.pc = "idle"
    /\ \E c \in {"ok", "raise"} :
         /\ net' = [net EXCEPT !.connector = c]
         /\ view' = IF c = "raise"
                     THEN [view EXCEPT !.pc = "done", !.result = on_view_exception]
                     ELSE [view EXCEPT !.pc = "cookie", !.log = <<"FetchCookie">>]
    /\ UNCHANGED ViewFrame

\* the first request is over: raised, answered without a Set-Cookie header
\* (the default "" is split), or answered with one
ViewCookieDone ==
    /\ view.pc = "cookie"
    /\ \E answer \in {[kind |-> "raise", str |-> <<>>], [kind |-> "absent", str |-> <<>>]}
                   \cup { [kind |-> "value", str |-> h] : h \in Headers } :
         LET cookie == fetch_page_and_cookie(answer)
         IN  /\ net' = [net EXCEPT !.header = answer]
             /\ view' = IF cookie.none
                         THEN [view EXCEPT !.pc = "done", !.result = "failure"]
                         ELSE [view EXCEPT !.pc = "key", !.cookie = cookie,
                                           !.log = Append(@, "FetchKey")]
    /\ UNCHANGED ViewFrame

\* the second request is over
ViewKeyDone ==
    /\ view.pc = "key"
    /\ \E answer \in {[kind |-> "raise", str |-> <<>>]}
                   \cup { [kind |-> "value", str |-> t] : t \in Texts } :
         LET key == fetch_view_key(answer)
         IN  /\ net' = [net EXCEPT !.text = answer]
             /\ view' = IF key.none
                         THEN [view EXCEPT !.pc = "done", !.result = "failure"]
                         ELSE [view EXCEPT !.pc = "register", !.view_key = key,
                                           !.log = Append(@, "Register")]
    /\ UNCHANGED ViewFrame

\* the third request is over
ViewRegisterDone ==
    /\ view.pc = "register"
    /\ \E answer \in Statuses \cup {"raise"} :
         /\ net' = [net EXCEPT !.status = answer]
         /\ view' = [view EXCEPT !.pc = "done", !.result =
                        IF register_view(answer) THEN "success" ELSE "failure"]
    /\ UNCHANGED ViewFrame

ViewInit ==
    /\ OrchIdle /\ pool = <<>> /\ PoolIdle /\ SessIdle /\ MoreIdle
    /\ view = NoView /\ net = NoNet

ViewNext == ViewCall \/ ViewCookieDone \/ ViewKeyDone \/ ViewRegisterDone

ViewSpec == ViewInit /\ [][ViewNext]_vars

\* ------------------------------------------ the hunter driven on its own
\* ParsedProxy; username and password are optional strings
ParsedProxy(protocol, host, port, username, password) ==
    [protocol |-> protocol, host |-> host, port |-> port,
     username |-> username, password |-> password]

\* ParsedProxy.to_key: "host:port"
to_key(p) == <<p.host, ":", p.port>>

\* the proxies the sources publish: the same host:port with two protocols,
\* with and without credentials, the same host at another port, another host
HuntProxies ==
    { ParsedProxy("http", "a", 80, NoStr, NoStr),
      ParsedProxy("https", "a", 80, Str(<<"u">>), Str(<<"p">>)),
      ParsedProxy("http", "a", 81, NoStr, NoStr),
      ParsedProxy("socks5", "b", 80, NoStr, NoStr) }

\* ProxySource.proxy_type of the configured sources
SourceTypes == {"socks5", "mixed"}

\* what a source answers: status 200 and a body, of which parse_many keeps
\* the proxies; another status, with a body all the same; a timeout or a
\* transport error
Answers ==
    { [kind |-> "ok", parsed |-> b] :
        b \in UNION { [1..n -> HuntProxies] : n \in 0..MaxFetched } }
    \cup { [kind |-> "status", parsed |-> b] :
             b \in {<<>>} \cup { <<x>> : x \in HuntProxies } }
    \cup { [kind |-> k, parsed |-> <<>>] : k \in {"timeout", "client_error"} }

\* _fetch_from_source: a proxy that parse_many left at "http" takes the type
\* of a source that is neither "mixed" nor "http"
coerce(proxy, proxy_type) ==
    IF proxy_type # "mixed" /\ proxy.protocol = "http" /\ proxy_type # "http"
    THEN [proxy EXCEPT !.protocol = proxy_type]
    ELSE proxy

\* faulty variant: the body of a source is parsed whatever its status
fetch_from_source_any_status(proxy_type, answer) ==
    [k \in 1..Len(answer.parsed) |-> coerce(answer.parsed[k], proxy_type)]

\* ProxyHunter._fetch_from_source: the empty list for a status other than
\* 200 and for every exception, else the parsed and coerced proxies
fetch_from_source(proxy_type, answer) ==
    IF answer.kind # "ok" THEN <<>>
    ELSE [k \in 1..Len(answer.parsed) |-> coerce(answer.parsed[k], proxy_type)]

RECURSIVE dedup_loop_last(_, _, _)
\* faulty variant: a later duplicate replaces the entry kept so far
dedup_loop_last(proxies, seen, unique) ==
    IF proxies = <<>> THEN unique
    ELSE LET proxy == Head(proxies)
             key == to_key(proxy)
         IN  IF key \notin seen
             THEN dedup_loop_last(Tail(proxies), seen \cup {key},
                                  Append(unique, proxy))
             ELSE dedup_loop_last(Tail(proxies), seen,
                     [k \in 1..Len(unique) |->
                        IF to_key(unique[k]) = key THEN proxy ELSE unique[k]])

RECURSIVE dedup_loop(_, _, _)
\* the loop of _deduplicate over the proxies that are left
dedup_loop(proxies, seen, unique) ==
    IF proxies = <<>> THEN unique
    ELSE LET proxy == Head(proxies)
             key == to_key(proxy)
         IN  IF key \notin seen
             THEN dedup_loop(Tail(proxies), seen \cup {key}, Append(unique, proxy))
             ELSE dedup_loop(Tail(proxies), seen, unique)

\* ProxyHunter._deduplicate
deduplicate(proxies) == dedup_loop(proxies, {}, <<>>)

\* hunt_all after its loop over the sources: deduplicate and return
hunt_return(h) == [h EXCEPT !.pc = "done", !.unique = deduplicate(h.all_proxies)]

\* the proxies in the bodies received so far, parsed or not
Received(fetched) == Len(Concat([k \in 1..Len(fetched) |-> fetched[k].parsed]))

HuntFrame == <<pool, poolvars, sessvars, viewvars, OrchRest, checkvars, parsevars, workvars, procvars, extravars>>

\* hunt_all is called: it awaits the first source, or returns at once when
\* there is no source
HuntCall ==
    /\ hunt.pc = "idle"
    /\ hunt' = IF Len(sources) = 0 THEN hunt_return(hunt)
               ELSE [hunt EXCEPT !.pc = "fetch", !.i = 1]
    /\ UNCHANGED <<sources, HuntFrame>>

\* the fetch of source i is over; the next source is fetched, or hunt_all
\* returns after the last
HuntFetchDone ==
    /\ hunt.pc = "fetch"
    /\ \E answer \in Answers :
         /\ Received(hunt.fetched) + Len(answer.parsed) <= MaxFetched
         /\ LET proxies == fetch_from_source(sources[hunt.i], answer)
                h == [hunt EXCEPT !.fetched = Append(@, answer),
                                  !.all_proxies = @ \o proxies]
            IN  hunt' = IF hunt.i = Len(sources) THEN hunt_return(h)
                        ELSE [h EXCEPT !.i = @ + 1]
    /\ UNCHANGED <<sources, HuntFrame>>

HuntInit ==
    /\ OrchIdle /\ pool = <<>> /\ PoolIdle /\ SessIdle /\ ViewIdle /\ CheckIdle /\ ParseIdle /\ WorkIdle /\ ProcIdle /\ ExtraIdle
    /\ sources \in UNION { [1..n -> SourceTypes] : n \in 0..MaxSources }
    /\ hunt = NoHunt

HuntNext == HuntCall \/ HuntFetchDone

HuntSpec == HuntInit /\ [][HuntNext]_vars

\* ----------------------------------- the health checker driven on its own
\* ProxyHealthChecker._concurrency, scaled down
HealthConcurrency == 2

\* the candidates: two of the proxies above
CheckProxies ==
    { ParsedProxy("http", "a", 80, NoStr, NoStr),
      ParsedProxy("socks5", "b", 80, NoStr, NoStr) }

\* a probe that waits for the semaphore of check_all
NewProbe ==
    [pc |-> "sem", main |-> "none", embed |-> "none", main_page_ok |-> FALSE,
     embed_page_ok |-> FALSE, error |-> FALSE, is_alive |-> FALSE,
     response_time_ms |-> 0]

\* probes inside "async with semaphore"
Probing(ps) == { i \in 1..Len(ps) : ps[i].pc \in {"main", "embed"} }

\* faulty variant: a probe that passed the first test counts as alive
check_result_main_only(probe, elapsed) ==
    [probe EXCEPT !.pc = "done", !.response_time_ms = elapsed,
                  !.is_alive = probe.main_page_ok]

\* _check_single after its try block: the HealthCheckResult
check_result(probe, elapsed) ==
    [probe EXCEPT !.pc = "done", !.response_time_ms = elapsed,
                  !.is_alive = probe.main_page_ok /\ probe.embed_page_ok]

\* faulty variant: the alive results are left in the order of the candidates
insert_by_time_unsorted(sorted, x, ps) == Append(sorted, x)

\* list.sort(key=response_time_ms) is stable: result x goes behind the
\* results that are not slower
insert_by_time(sorted, x, ps) ==
    LET n == Cardinality({ k \in 1..Len(sorted) :
                 ps[sorted[k]].response_time_ms <= ps[x].response_time_ms })
    IN  SubSeq(sorted, 1, n) \o <<x>> \o SubSeq(sorted, n + 1, Len(sorted))

RECURSIVE sort_alive(_, _, _)
\* the alive results among results i.. of the gather, sorted by time
sort_alive(sorted, i, ps) ==
    IF i > Len(ps) THEN sorted
    ELSE sort_alive(IF ps[i].is_alive THEN insert_by_time(sorted, i, ps)
                    ELSE sorted, i + 1, ps)

\* check_all after the gather: filter, sort, return the proxies
check_return(c) ==
    LET alive == sort_alive(<<>>, 1, c.probes)
    IN  [c EXCEPT !.pc = "done", !.alive = alive,
                  !.healthy = [k \in 1..Len(alive) |-> candidates[alive[k]]]]

CheckFrame == <<pool, poolvars, sessvars, viewvars, OrchRest, huntvars, parsevars, workvars, procvars, extravars>>

\* check_all is called: one probe per candidate is handed to gather
CheckCall ==
    /\ check.pc = "idle"
    /\ check' = [check EXCEPT !.pc = "gather",
                     !.probes = [i \in 1..Len(candidates) |-> NewProbe]]
    /\ UNCHANGED <<candidates, CheckFrame>>

\* a probe gets the semaphore and sends the first request, unless the
\* connector cannot be made, which ends the probe in its except branch
CheckProbeStart ==
    /\ check.pc = "gather"
    /\ Cardinality(Probing(check.probes)) < HealthConcurrency
    /\ \E i \in 1..Len(candidates), raised \in BOOLEAN :
         /\ check.probes[i].pc = "sem"
         /\ check' = [check EXCEPT !.probes[i] =
                IF raised THEN check_result([@ EXCEPT !.error = TRUE], 0)
                ELSE [@ EXCEPT !.pc = "main"]]
    /\ UNCHANGED <<candidates, CheckFrame>>

\* the request to the main page is over: an exception ends the probe, any
\* status lets it go on to the second request
CheckMainDone ==
    /\ check.pc = "gather"
    /\ \E i \in 1..Len(candidates), answer \in {"200", "403", "raise"},
          elapsed \in 1..MaxElapsed :
         /\ check.probes[i].pc = "main"
         /\ check' = [check EXCEPT !.probes[i] =
                IF answer = "raise"
                THEN check_result([@ EXCEPT !.main = answer, !.error = TRUE],
                                  elapsed)
                ELSE [@ EXCEPT !.pc = "embed", !.main = answer,
                               !.main_page_ok = (answer = "200")]]
    /\ UNCHANGED <<candidates, CheckFrame>>

\* the request to the embed page is over
CheckEmbedDone ==
    /\ check.pc = "gather"
    /\ \E i \in 1..Len(candidates), answer \in {"200", "403", "raise"},
          elapsed \in 1..MaxElapsed :
         /\ check.probes[i].pc = "embed"
         /\ check' = [check EXCEPT !.probes[i] =
                IF answer = "raise"
                THEN check_result([@ EXCEPT !.embed = answer, !.error = TRUE],
                                  elapsed)
                ELSE check_result([@ EXCEPT !.embed = answer,
                                      !.embed_page_ok = (answer = "200")],
                                  elapsed)]
    /\ UNCHANGED <<candidates, CheckFrame>>

\* every probe is over: gather hands the results to check_all, which returns
CheckGatherDone ==
    /\ check.pc = "gather"
    /\ \A i \in 1..Len(candidates) : check.probes[i].pc = "done"
    /\ check' = check_return(check)
    /\ UNCHANGED <<candidates, CheckFrame>>

CheckInit ==
    /\ OrchIdle /\ pool = <<>> /\ PoolIdle /\ SessIdle /\ ViewIdle /\ HuntIdle /\ ParseIdle /\ WorkIdle /\ ProcIdle /\ ExtraIdle
    /\ candidates \in UNION { [1..n -> CheckProxies] : n \in 0..MaxCandidates }
    /\ check = NoCheck

CheckNext ==
    \/ CheckCall \/ CheckProbeStart \/ CheckMainDone \/ CheckEmbedDone
    \/ CheckGatherDone

CheckSpec == CheckInit /\ [][CheckNext]_vars

\* ------------------------------------ the format parser driven on its own
\* A line is a sequence of characters; the protocol name at its head is one
\* token, which stands for its letters.
SUPPORTED_PROTOCOLS == {"http", "https", "socks5"}

Digits == <<"0", "1", "2", "3", "4", "5", "6", "7", "8", "9">>
IsDigit(c) == \E k \in 1..Len(Digits) : Digits[k] = c
DigitValue(c) == (CHOOSE k \in 1..Len(Digits) : Digits[k] = c) - 1

\* str(n) of a positive int
RECURSIVE str_of_int(_)
str_of_int(n) ==
    IF n < Len(Digits) THEN <<Digits[n + 1]>>
    ELSE str_of_int(n \div Len(Digits)) \o <<Digits[(n % Len(Digits)) + 1]>>

\* int(s) of a string of digits
RECURSIVE int_of_str(_)
int_of_str(s) ==
    IF s = <<>> THEN 0
    ELSE Len(Digits) * int_of_str(SubSeq(s, 1, Len(s) - 1)) + DigitValue(s[Len(s)])

\* str.isdigit
isdigit(s) == s # <<>> /\ \A k \in 1..Len(s) : IsDigit(s[k])

\* str.lower: of the characters of the model only "B" is upper case
lower_char(c) == IF c = "B" THEN "b" ELSE c
lower(x) == [k \in 1..Len(x) |-> lower_char(x[k])]

\* str.strip: no whitespace at either end
RECURSIVE lstrip(_)
lstrip(x) == IF x # <<>> /\ Head(x) = " " THEN lstrip(Tail(x)) ELSE x
RECURSIVE rstrip(_)
rstrip(x) ==
    IF x # <<>> /\ x[Len(x)] = " " THEN rstrip(SubSeq(x, 1, Len(x) - 1)) ELSE x
strip(x) == rstrip(lstrip(x))

\* "sub in x" for strings
has_substring(x, sub) ==
    \E i \in 1..(Len(x) - Len(sub) + 1) : SubSeq(x, i, i + Len(sub) - 1) = sub

\* str.rpartition(sep): what comes before and after the last separator
before_last(x, sep) ==
    SubSeq(x, 1, (CHOOSE i \in 1..Len(x) :
                     x[i] = sep /\ \A j \in (i + 1)..Len(x) : x[j] # sep) - 1)
after_last(x, sep) ==
    IF ~contains(x, sep) THEN x
    ELSE SubSeq(x, (CHOOSE i \in 1..Len(x) :
                     x[i] = sep /\ \A j \in (i + 1)..Len(x) : x[j] # sep) + 1, Len(x))

\* str.split(sep)
RECURSIVE split(_, _)
split(x, sep) ==
    IF ~contains(x, sep) THEN <<x>>
    ELSE <<before_first(x, sep)>> \o split(after_first(x, sep), sep)

\* an optional string is truthy when it is neither None nor empty
truthy(o) == ~o.none /\ o.str # <<>>

\* "x or None"
or_none(o) == IF truthy(o) THEN o ELSE NoStr

\* ProxyFormatParser.format
format(proxy) ==
    IF truthy(proxy.username) /\ truthy(proxy.password)
    THEN <<proxy.protocol, ":", "/", "/">> \o proxy.username.str \o <<":">>
           \o proxy.password.str \o <<"@">> \o proxy.host \o <<":">>
           \o str_of_int(proxy.port)
    ELSE <<proxy.protocol, ":", "/", "/">> \o proxy.host \o <<":">>
           \o str_of_int(proxy.port)

\* the tokens made of characters a URL scheme may hold
SchemeTokens == SUPPORTED_PROTOCOLS \cup {"a", "b", "B"} \cup { Digits[k] : k \in 1..Len(Digits) }

\* urllib.parse.urlsplit: the scheme is what comes before the first ":" when
\* that starts with a letter and holds scheme characters only; the netloc is
\* what follows "//" up to the first "/", "?" or "#"
RECURSIVE netloc_of(_)
netloc_of(x) ==
    IF x = <<>> \/ Head(x) \in {"/", "?", "#"} THEN <<>>
    ELSE <<Head(x)>> \o netloc_of(Tail(x))

urlparse(line) ==
    LET head == before_first(line, ":")
        has_scheme == /\ contains(line, ":") /\ head # <<>>
                      /\ ~IsDigit(head[1])
                      /\ \A k \in 1..Len(head) : head[k] \in SchemeTokens
        url == IF has_scheme THEN after_first(line, ":") ELSE line
    IN  [scheme |-> IF has_scheme THEN lower(head) ELSE <<>>,
         netloc |-> IF Len(url) >= 2 /\ SubSeq(url, 1, 2) = <<"/", "/">>
                    THEN netloc_of(SubSeq(url, 3, Len(url))) ELSE <<>>]

\* SplitResult._hostinfo and _userinfo (no "[" in the characters of the model)
hostinfo(netloc) == after_last(netloc, "@")
userinfo(netloc) == before_last(netloc, "@")

\* SplitResult.hostname: None when empty, else lower case
hostname(netloc) ==
    LET name == before_first(hostinfo(netloc), ":")
    IN  IF name = <<>> THEN NoStr ELSE Str(lower(name))

\* SplitResult.port: None when there is none, ValueError when it is not a
\* string of digits or above 65535
url_port(netloc) ==
    LET hi == hostinfo(netloc)
        port == IF contains(hi, ":") THEN after_first(hi, ":") ELSE <<>>
    IN  IF port = <<>> THEN [kind |-> "none", port |-> 0]
        ELSE IF ~isdigit(port) \/ int_of_str(port) > 65535
        THEN [kind |-> "raise", port |-> 0]
        ELSE [kind |-> "int", port |-> int_of_str(port)]

\* SplitResult.username and password
url_username(netloc) ==
    IF ~contains(netloc, "@") THEN NoStr
    ELSE Str(before_first(userinfo(netloc), ":"))
url_password(netloc) ==
    IF ~contains(netloc, "@") \/ ~contains(userinfo(netloc), ":") THEN NoStr
    ELSE Str(after_first(userinfo(netloc), ":"))

\* ProxyFormatParser._validate_port
validate_port(port) == 1 <= port /\ port <= 65535

\* a ParsedProxy as parse returns it
Parsed(protocol, host, port, username, password) ==
    [none |-> FALSE, protocol |-> protocol, host |-> host, port |-> port,
     username |-> username, password |-> password]

\* ProxyFormatParser._parse_url_format; a ValueError of parsed.port is caught
\* by its except branch
parse_url_format(line) ==
    LET parsed == urlparse(line)
        host == hostname(parsed.netloc)
        port == url_port(parsed.netloc)
    IN  IF Len(parsed.scheme) # 1 \/ parsed.scheme[1] \notin SUPPORTED_PROTOCOLS
        THEN NoProxy
        ELSE IF host.none \/ port.kind = "none" THEN NoProxy
        ELSE IF port.kind = "raise" THEN NoProxy
        ELSE IF ~validate_port(port.port) THEN NoProxy
        ELSE Parsed(parsed.scheme[1], host.str, port.port,
                    or_none(url_username(parsed.netloc)),
                    or_none(url_password(parsed.netloc)))

\* ProxyFormatParser._build_proxy: int(port_str) raises on anything but digits
build_proxy(protocol, host, port_str, username, password) ==
    IF ~isdigit(port_str) THEN NoProxy
    ELSE IF ~validate_port(int_of_str(port_str)) THEN NoProxy
    ELSE Parsed(protocol, host, int_of_str(port_str), username, password)

\* ProxyFormatParser._parse_plain_format
parse_plain_format(line) ==
    LET parts == split(line, ":")
        colon_count == Len(parts) - 1
    IN  IF colon_count = 1
        THEN build_proxy("http", parts[1], parts[2], NoStr, NoStr)
        ELSE IF colon_count = 3
        THEN build_proxy("http", parts[1], parts[2], Str(parts[3]), Str(parts[4]))
        ELSE NoProxy

\* ProxyFormatParser.parse
parse(raw_line) ==
    LET line == strip(raw_line)
    IN  IF line = <<>> THEN NoProxy
        ELSE IF has_substring(line, <<":", "/", "/">>) THEN parse_url_format(line)
        ELSE parse_plain_format(line)

\* hosts as a proxy list spells them, and credentials; none is empty
Names(chars) == UNION { [1..n -> chars] : n \in 1..MaxName }
HostNames == Names({"a", "B"})
Credentials == Names({"a", "/"})
Ports == {1, 80, 65535}

\* the valid proxies: a supported protocol, a port in 1..65535, both
\* credentials or none
ValidProxies ==
    { Parsed(pr, h, po, NoStr, NoStr) :
        pr \in SUPPORTED_PROTOCOLS, h \in HostNames, po \in Ports }
    \cup { Parsed(pr, h, po, Str(u), Str(pw)) :
        pr \in SUPPORTED_PROTOCOLS, h \in HostNames, po \in Ports,
        u \in Credentials, pw \in Credentials }

ParseFrame == <<pool, poolvars, sessvars, viewvars, OrchRest, huntvars, checkvars, workvars, procvars, extravars>>

\* a caller formats the proxy
ParseFormat ==
    /\ codec.pc = "proxy"
    /\ codec' = [codec EXCEPT !.pc = "formatted", !.line = format(codec.proxy)]
    /\ UNCHANGED ParseFrame

\* a caller parses the line
ParseParse ==
    /\ codec.pc = "formatted"
    /\ codec' = [codec EXCEPT !.pc = "parsed", !.parsed = parse(codec.line)]
    /\ UNCHANGED ParseFrame

ParseInit ==
    /\ OrchIdle /\ pool = <<>> /\ PoolIdle /\ SessIdle /\ ViewIdle
    /\ HuntIdle /\ CheckIdle /\ WorkIdle /\ ProcIdle /\ ExtraIdle
    /\ \E p \in ValidProxies : codec = [NoCodec EXCEPT !.pc = "proxy", !.proxy = p]

ParseNext == ParseFormat \/ ParseParse

ParseSpec == ParseInit /\ [][ParseNext]_vars

\* ------------------------------------------- the lines of a proxy source
\* ProxySource.proxy_type: "http" | "socks5" | "mixed"
ProxyTypes == {"http", "socks5", "mixed"}

\* the lines a source publishes: host:port, and the same with each scheme
\* spelled out
PlainLines == { h \o <<":">> \o str_of_int(po) : h \in HostNames, po \in Ports }
SchemeLines ==
    { format(Parsed(pr, h, po, NoStr, NoStr)) :
        pr \in SUPPORTED_PROTOCOLS, h \in HostNames, po \in Ports }
SourceLines == PlainLines \cup SchemeLines \cup {<<"a">>}

FeedFrame == <<pool, poolvars, sessvars, viewvars, OrchRest, huntvars, checkvars,
               parsevars, workvars, procvars, latency, reactvars>>

\* parse_many parses the line and skips it when the parser returns None
FeedParse ==
    /\ feed.pc = "line"
    /\ LET parsed == parse(feed.line)
       IN  feed' = [feed EXCEPT !.pc = IF parsed.none THEN "skipped" ELSE "parsed",
                                !.parsed = parsed]
    /\ UNCHANGED FeedFrame

\* _fetch_from_source applies the type of the source to the parsed proxy;
\* the line the proxy was parsed from is not consulted
FeedApplyType ==
    /\ feed.pc = "parsed"
    /\ feed' = [feed EXCEPT !.pc = "typed",
                            !.proxy = coerce(feed.parsed, feed.proxy_type)]
    /\ UNCHANGED FeedFrame

FeedInit ==
    /\ OrchIdle /\ pool = <<>> /\ PoolIdle /\ SessIdle /\ ViewIdle
    /\ HuntIdle /\ CheckIdle /\ ParseIdle /\ WorkIdle /\ ProcIdle
    /\ LatencyIdle /\ ReactIdle
    /\ \E t \in ProxyTypes, l \in SourceLines :
         feed = [NoFeed EXCEPT !.pc = "line", !.proxy_type = t, !.line = l]

FeedNext == FeedParse \/ FeedApplyType

FeedSpec == FeedInit /\ [][FeedNext]_vars

\* ------------------------------------------------------ process manager
\* threading.Thread.is_alive(): run() has not returned yet
is_alive(cycle) == cycle.thread # "dead"

\* StopEventController.signal_stop: the current event, if any, is set
signal_stop(cs, ev) ==
    IF ev = 0 THEN cs ELSE [cs EXCEPT ![ev].stop_event = TRUE]

\* _stop_cycle_unlocked up to its join: the cycles, and the thread it goes
\* on to join with the lock released (0: it returns without a join)
stop_cycle_unlocked(cs, cur, ev) ==
    IF cur = 0 THEN [cycles |-> cs, join |-> 0]
    ELSE IF ~cs[cur].is_running THEN [cycles |-> cs, join |-> 0]
    ELSE LET stopped == [signal_stop(cs, ev) EXCEPT ![cur].is_running = FALSE]
         IN  [cycles |-> stopped,
              join |-> IF is_alive(stopped[cur]) THEN cur ELSE 0]

\* the CycleState start_batch_cycle makes, its thread started
NewCycle == [is_running |-> TRUE, stop_event |-> FALSE, thread |-> "running"]

\* the rest of the call of caller c, which holds the lock, from the return
\* of _stop_cycle_unlocked on: start_batch_cycle makes the new stop event
\* (create_new_event sets the one before), the new CycleState and its
\* thread, and starts it; both calls release the lock
proc_finish(c, cs) ==
    /\ IF callers[c].op = "start"
       THEN /\ cycles' = Append(signal_stop(cs, current_event), NewCycle)
            /\ current_cycle' = Len(cs) + 1
            /\ current_event' = Len(cs) + 1
       ELSE /\ cycles' = cs
            /\ UNCHANGED <<current_cycle, current_event>>
    /\ lock' = 0
    /\ callers' = [callers EXCEPT ![c] = NoCaller]

ProcFrame == <<pool, poolvars, sessvars, viewvars, OrchRest, huntvars, checkvars,
               parsevars, workvars, extravars>>

\* cycles that calls in progress will still start
Starting == Cardinality({ c \in 1..MaxCallers : callers[c].op = "start" })

\* a caller calls start_batch_cycle: with no url it returns at once, else it
\* goes for the lock
ProcCallStart ==
    /\ \E c \in 1..MaxCallers, empty \in BOOLEAN :
         /\ callers[c].pc = "idle"
         /\ Len(cycles) + Starting < MaxCycles
         /\ callers' = IF empty THEN callers
                       ELSE [callers EXCEPT ![c] = [pc |-> "lock", op |-> "start",
                                                    joined |-> 0]]
    /\ UNCHANGED <<lock, current_cycle, current_event, cycles, ProcFrame>>

\* a caller calls stop_current_cycle and goes for the lock
ProcCallStop ==
    /\ \E c \in 1..MaxCallers :
         /\ callers[c].pc = "idle"
         /\ callers' = [callers EXCEPT ![c] = [pc |-> "lock", op |-> "stop",
                                               joined |-> 0]]
    /\ UNCHANGED <<lock, current_cycle, current_event, cycles, ProcFrame>>

\* "with self._lock": the caller takes the lock and stops the running cycle;
\* if the thread of that cycle is alive it releases the lock and joins it,
\* else it goes on to the end of its call
ProcAcquire ==
    /\ \E c \in 1..MaxCallers :
         /\ callers[c].pc = "lock"
         /\ lock = 0
         /\ LET s == stop_cycle_unlocked(cycles, current_cycle, current_event)
            IN  IF s.join # 0
                THEN /\ cycles' = s.cycles
                     /\ callers' = [callers EXCEPT ![c].pc = "join",
                                                   ![c].joined = s.join]
                     /\ UNCHANGED <<lock, current_cycle, current_event>>
                ELSE proc_finish(c, s.cycles)
    /\ UNCHANGED ProcFrame

\* thread.join(timeout=JOIN_TIMEOUT) returns: the thread has ended, or the
\* timeout has passed with the thread alive; join tells neither apart and
\* the caller does not look
ProcJoinReturn ==
    /\ \E c \in 1..MaxCallers, timeout \in BOOLEAN :
         /\ callers[c].pc = "join"
         /\ IF timeout THEN is_alive(cycles[callers[c].joined])
            ELSE ~is_alive(cycles[callers[c].joined])
         /\ callers' = [callers EXCEPT ![c].pc = "relock"]
    /\ UNCHANGED <<lock, current_cycle, current_event, cycles, ProcFrame>>

\* "self._lock.acquire()" in the finally of the join, and the rest of the call
ProcRelock ==
    /\ \E c \in 1..MaxCallers :
         /\ callers[c].pc = "relock"
         /\ lock = 0
         /\ proc_finish(c, cycles)
    /\ UNCHANGED ProcFrame

\* _run_cycle leaves its try block, the cycle having returned after its stop
\* event was set or having raised: "finally: cycle.is_running = False"
ThreadFinally ==
    /\ \E t \in 1..Len(cycles), raised \in BOOLEAN :
         /\ cycles[t].thread = "running"
         /\ raised \/ cycles[t].stop_event
         /\ cycles' = [cycles EXCEPT ![t].is_running = FALSE,
                                      ![t].thread = "finally"]
    /\ UNCHANGED <<lock, current_cycle, current_event, callers, ProcFrame>>

\* _run_cycle returns and the thread ends
ThreadEnd ==
    /\ \E t \in 1..Len(cycles) :
         /\ cycles[t].thread = "finally"
         /\ cycles' = [cycles EXCEPT ![t].thread = "dead"]
    /\ UNCHANGED <<lock, current_cycle, current_event, callers, ProcFrame>>

ProcInit ==
    /\ OrchIdle /\ pool = <<>> /\ PoolIdle /\ SessIdle /\ ViewIdle
    /\ HuntIdle /\ CheckIdle /\ ParseIdle /\ WorkIdle
    /\ ProcIdle /\ ExtraIdle

ProcNext ==
    \/ ProcCallStart \/ ProcCallStop \/ ProcAcquire \/ ProcJoinReturn
    \/ ProcRelock \/ ThreadFinally \/ ThreadEnd

ProcSpec == ProcInit /\ [][ProcNext]_vars

\* ------------------------------------------------- the report's latency
\* faulty variant: the first success is averaged with the initial 0.0 too
update_avg_halved(avg, elapsed) == (avg + elapsed) \div 2

\* the worker's update of avg_response_time_ms after a successful view:
\* an average of 0.0 is replaced by the elapsed time, any other average
\* becomes the mean of itself and the elapsed time
update_avg(avg, elapsed) ==
    IF avg = 0 THEN elapsed ELSE (avg + elapsed) \div 2

LatencyFrame == <<pool, poolvars, sessvars, viewvars, OrchRest, huntvars, checkvars,
                  parsevars, workvars, procvars, reactvars, feed>>

\* a worker's execute_view returns True after elapsed milliseconds
LatencySuccess ==
    /\ latency.successful_views + latency.failed_views < MaxAttempts
    /\ \E e \in 0..MaxLatency :
         latency' = [avg_response_time_ms |->
                         update_avg(latency.avg_response_time_ms, e * Scale),
                     successful_views |-> latency.successful_views + 1,
                     failed_views |-> latency.failed_views,
                     outcome |-> "success",
                     old_avg |-> latency.avg_response_time_ms,
                     elapsed_ms |-> e * Scale]
    /\ UNCHANGED LatencyFrame

\* a worker's execute_view returns False, or raises, after elapsed
\* milliseconds: failed_views is counted and the average is left alone
LatencyFailure ==
    /\ latency.successful_views + latency.failed_views < MaxAttempts
    /\ \E e \in 0..MaxLatency :
         latency' = [latency EXCEPT !.failed_views = @ + 1, !.outcome = "failure",
                                    !.old_avg = latency.avg_response_time_ms,
                                    !.elapsed_ms = e * Scale]
    /\ UNCHANGED LatencyFrame

\* run_cycle is called again and makes a new CycleReport
LatencyNewReport ==
    /\ latency.outcome # "none"
    /\ latency' = NoLatency
    /\ UNCHANGED LatencyFrame

LatencyInit ==
    /\ OrchIdle /\ pool = <<>> /\ PoolIdle /\ SessIdle /\ ViewIdle
    /\ HuntIdle /\ CheckIdle /\ ParseIdle /\ WorkIdle /\ ProcIdle
    /\ ReactIdle /\ FeedIdle
    /\ latency = NoLatency

LatencyNext == LatencySuccess \/ LatencyFailure \/ LatencyNewReport

LatencySpec == LatencyInit /\ [][LatencyNext]_vars

\* ------------------------------------------------------ reaction engine
\* faulty variant: any active session counts, as the docstring has it
has_active_sessions_any_active(ss, t, d) ==
    [sessions |-> ss, ret |-> \E i \in 1..Len(ss) : ss[i].is_active]

\* the for loop of has_active_sessions from session i on
RECURSIVE probe_scan(_, _, _, _)
probe_scan(ss, i, t, d) ==
    IF i > Len(ss) THEN [sessions |-> ss, ret |-> FALSE]
    ELSE IF ~ss[i].is_active THEN probe_scan(ss, i + 1, t, d)
    ELSE LET ss1 == [ss EXCEPT ![i] = day_reset(@, d)]
         IN  IF in_cooldown(ss1[i], t) THEN probe_scan(ss1, i + 1, t, d)
             ELSE IF at_limit(ss1[i]) THEN probe_scan(ss1, i + 1, t, d)
             ELSE [sessions |-> ss1, ret |-> TRUE]

\* SessionManager.has_active_sessions: the sessions it leaves and its result
has_active_sessions(ss, t, d) == probe_scan(ss, 1, t, d)

\* SessionManager.mark_cooldown, called at time t
mark_cooldown(ss, i, t, duration) ==
    [ss EXCEPT ![i].cooldown_until = t + duration]

\* SessionManager.increment_reaction_count
increment_reaction_count(ss, i) ==
    [ss EXCEPT ![i].daily_reaction_count = @ + 1]

\* faulty variant: a flood wait is answered with the default cooldown
on_flood_wait_default(ss, i, t, seconds) == mark_cooldown(ss, i, t, Cooldown)

\* react_to_post, "except FloodWaitError as e"
on_flood_wait(ss, i, t, seconds) == mark_cooldown(ss, i, t, seconds)

\* react_to_post, "except Exception", and its branch for a missing client
on_other_error(ss, i, t) == mark_cooldown(ss, i, t, Cooldown)

\* SessionManager.get_client: initialize keeps a client for every session
\* whose connect succeeded, and for none when Telethon is missing
has_client(ss, i) == telethon /\ ss[i].is_active

\* react_to_post calls that are suspended
InFlight == SumOver(reacts, 1..Len(reacts))

ReactFrame == <<pool, poolvars, viewvars, OrchRest, huntvars, checkvars,
                parsevars, workvars, procvars, latency, feed, selected, picks>>

\* ReactionEngine.is_available
ReactIsAvailable ==
    /\ LET r == has_active_sessions(sessions, now, today)
       IN  /\ sessions' = r.sessions
           /\ revent' = [NoReact EXCEPT !.op = "has_active",
                                        !.available = r.ret]
    /\ UNCHANGED <<rr_index, now, today, reacts, telethon, ReactFrame>>

\* react_to_post is called and runs up to its first await that suspends:
\* with no session it returns False, with no client it puts the session in
\* cooldown and returns False, else it goes to sleep its delay
ReactCall ==
    /\ InFlight < MaxReacts
    /\ LET r == get_next_session(sessions, rr_index, now, today)
       IN  /\ rr_index' = r.rr_index
           /\ IF r.ret = None
              THEN /\ sessions' = r.sessions
                   /\ revent' = [NoReact EXCEPT !.op = "call",
                                                !.outcome = "no_session",
                                                !.result = "false"]
                   /\ UNCHANGED reacts
              ELSE IF ~has_client(r.sessions, r.ret)
              THEN /\ sessions' = on_other_error(r.sessions, r.ret, now)
                   /\ revent' = [NoReact EXCEPT !.op = "call",
                                                !.session = r.ret,
                                                !.outcome = "no_client",
                                                !.result = "false"]
                   /\ UNCHANGED reacts
              ELSE /\ sessions' = r.sessions
                   /\ revent' = [NoReact EXCEPT
                                   !.op = "call", !.session = r.ret,
                                   !.outcome = "suspended",
                                   !.before = sessions[r.ret].daily_reaction_count]
                   /\ reacts' = [reacts EXCEPT ![r.ret] = @ + 1]
    /\ UNCHANGED <<now, today, telethon, ReactFrame>>

\* the delay and the SendReactionRequest of a call are over: the request
\* went through, or raised FloodWaitError, or something else was raised
ReactSendDone ==
    /\ \E i \in 1..Len(reacts), oc \in {"sent", "flood", "error"},
          seconds \in 1..MaxFlood :
         /\ reacts[i] > 0
         /\ oc # "flood" => seconds = 1
         /\ reacts' = [reacts EXCEPT ![i] = @ - 1]
         /\ sessions' =
              CASE oc = "sent" -> increment_reaction_count(sessions, i)
                [] oc = "flood" -> on_flood_wait(sessions, i, now, seconds)
                [] OTHER -> on_other_error(sessions, i, now)
         /\ revent' = [NoReact EXCEPT
                         !.op = "finish", !.session = i, !.outcome = oc,
                         !.result = IF oc = "sent" THEN "true" ELSE "false",
                         !.seconds = IF oc = "flood" THEN seconds ELSE 0]
    /\ UNCHANGED <<rr_index, now, today, telethon, ReactFrame>>

\* time passes
ReactTick ==
    /\ now < MaxTime
    /\ now' = now + 1
    /\ revent' = NoReact
    /\ UNCHANGED <<sessions, rr_index, today, reacts, telethon, ReactFrame>>

\* time passes and with it the date changes
ReactNextDay ==
    /\ now < MaxTime
    /\ now' = now + 1
    /\ today' = today + 1
    /\ revent' = NoReact
    /\ UNCHANGED <<sessions, rr_index, reacts, telethon, ReactFrame>>

ReactInit ==
    /\ OrchIdle /\ pool = <<>> /\ PoolIdle /\ ViewIdle
    /\ HuntIdle /\ CheckIdle /\ ParseIdle /\ WorkIdle /\ ProcIdle /\ LatencyIdle
    /\ FeedIdle
    /\ telethon \in BOOLEAN
    /\ \E n \in 0..MaxSessions :
         /\ sessions \in [1..n -> { NewSession(a) : a \in BOOLEAN }]
         /\ reacts = [i \in 1..n |-> 0]
    /\ rr_index = 0 /\ now = 0 /\ today = 0
    /\ selected = NoSelection /\ picks = <<>>
    /\ revent = NoReact

ReactNext ==
    \/ ReactIsAvailable \/ ReactCall \/ ReactSendDone \/ ReactTick
    \/ ReactNextDay

ReactSpec == ReactInit /\ [][ReactNext]_vars

\* run_cycle called directly, with its worker tasks
WatchedWorkers ==
    \/ WorkerStart \/ WorkerJitterDone \/ WatchedViewDone \/ WatchedCallbackDone

CycleNext == DirectCall \/ DirectReturn \/ WatchedWorkers \/ SetStop

CycleSpec == CycleInit /\ [][CycleNext]_vars

\* ------------------------------------------------------------ properties
InRefill(pc) == pc \in {"hunt", "check"}
Leaving == {"shutdown_await", "close_all", "returned"}

\* C1: at most one Hunt+Check+Load sequence is executing at any time; the
\* one that is executing holds the refill lock.
C1_OneRefillAtATime ==
    /\ ~(InRefill(mpc) /\ InRefill(refill_task.pc))
    /\ InRefill(mpc) => refill_lock = "main"
    /\ InRefill(refill_task.pc) => refill_lock = "bg"

C1_Witness == InRefill(refill_task.pc) /\ mpc = "lockwait"

\* C2 as stated: a refill trigger that finds a sequence in flight is a
\* no-op, it never runs a Hunt+Check+Load sequence of its own, not even
\* queued behind the first.
C2_TriggerInFlightIsNoOp ==
    [][ /\ mpc = "lockwait" => mpc' # "hunt"
        /\ (refill_task'.pc = "created" /\ refill_task.pc # "created")
             => refill_task.pc \in {"none", "done"} ]_vars

\* C2 amended: a second trigger never leads to a concurrent sequence.  A
\* refill task is launched only when no earlier one is outstanding; a
\* synchronous or initial refill triggered while a sequence is in flight
\* queues on the lock and starts its own sequence after the first has
\* finished.
C2_SecondTriggerNeverConcurrent ==
    [][ /\ (refill_task'.pc = "created" /\ refill_task.pc # "created")
             => refill_task.pc \in {"none", "done"}
        /\ (mpc # "hunt" /\ mpc' = "hunt")
             => (~InRefill(refill_task.pc) /\ ~InRefill(refill_task'.pc))
        /\ (refill_task.pc # "hunt" /\ refill_task'.pc = "hunt")
             => (~InRefill(mpc) /\ ~InRefill(mpc')) ]_vars

C2_Witness == mpc = "hunt" /\ mctx = "sync" /\ refill_task.pc = "done" /\ pool # <<>>

\* C3: the report is consistent in every state of a cycle: successful_views
\* is the sum of the per-target counts, and successful plus failed views do
\* not exceed total_proxies times the number of targets.
PerUrlSum(r) == SumOver(r.views_per_url, 1..MaxTargets)

C4_ConcurrencyBounded == ActiveCount(tasks) <= ConcurrencyLimit

C4_Witness == ActiveCount(tasks) = ConcurrencyLimit /\ tasks[WSem] > 0

\* C5: once the stop signal is set, run_continuous eventually returns.
C5_StopLeadsToReturn == stop_event ~> (mpc = "returned")

C5_Witness == stop_event /\ mpc = "returned" /\ report.total_proxies > 0

\* C6: an exception escaping _run_loop does not end run_continuous: it
\* leads to the restart wait (unless the stop signal is already set), the
\* wait leads to a new entry of _run_loop that starts with the initial
\* refill (or to shutdown on the stop signal), and run_continuous leaves
\* its loop only with the stop signal set.
C6_ExceptionRestartsLoop ==
    /\ [](mpc \in Leaving => stop_event)
    /\ [][ /\ MainRefillRaise =>
                IF stop_event THEN mpc' \in Leaving ELSE mpc' = "restart_wait"
           /\ (mpc = "restart_wait" /\ mpc' # "restart_wait") =>
                IF stop_event THEN mpc' \in Leaving
                ELSE mpc' \in {"hunt", "lockwait"} /\ mctx' = "initial"
                     /\ ~initial_done' ]_vars

C6_Witness == mpc = "restart_wait" /\ ~stop_event /\ pool # <<>>

C8_InitialRefillFirst == dispatched => initial_done

C8_Witness == dispatched /\ initial_done /\ mpc = "cycle"

\* C9: run_cycle is never called on an empty pool; the retry wait is
\* entered exactly with an empty pool and without a cycle having been run
\* in that step.
C9_NoCycleOnEmptyPool ==
    /\ []((mpc = "cycle" \/ dispatched) => report.total_proxies >= 1)
    /\ [][(mpc # "retry_wait" /\ mpc' = "retry_wait")
             => (is_empty(pool') /\ report' = report)]_vars

C9_Witness == mpc = "retry_wait" /\ ~stop_event /\ dispatched

\* C10: a refill whose hunt found nothing ran neither check nor load, a
\* refill whose check found nothing ran no load, and both left the pool as
\* it was when the refill started.
C10_EmptyRefillLeavesPool ==
    /\ (refill_exit.by # "none" /\ refill_exit.hunted = 0)
          => /\ ~refill_exit.checked /\ ~refill_exit.loaded
             /\ refill_exit.after = refill_exit.before
    /\ (refill_exit.by # "none" /\ refill_exit.checked /\ refill_exit.healthy = 0)
          => /\ ~refill_exit.loaded
             /\ refill_exit.after = refill_exit.before

C10_Witness ==
    /\ refill_exit.by # "none" /\ refill_exit.checked
    /\ refill_exit.healthy = 0 /\ refill_exit.before # <<>>

\* C11 as stated: when the stop signal is set while a cycle is running,
\* run_cycle cancels the outstanding tasks.  For the tasks that are
\* suspended in a view attempt, a jitter sleep or a callback this means:
\* with the stop signal set, such a task leaves the await it is suspended
\* in only as cancelled, it neither goes on nor ends by itself.
C11_StopCancelsOutstanding ==
    [][(mpc = "cycle" /\ stop_event)
         => \A w \in Active(tasks) :
               tasks'[w] < tasks[w] => tasks'[WCancelled] > tasks[WCancelled]]_vars

\* C12: no worker task outlives its cycle: whenever run_cycle is not
\* waiting, every task it made has ended, and once all tasks have ended the
\* report changes only by a later call of run_cycle making a fresh one.
Ended(t) == \A w \in WStates : t[w] > 0 => w \in {WDone, WCancelled}

C12_NoTaskOutlivesCycle ==
    /\ [](mpc # "cycle" => Ended(tasks))
    /\ [][(mpc # "cycle" \/ Ended(tasks))
            => \/ report' = report
               \/ report'.successful_views = 0 /\ report'.failed_views = 0]_vars

C12_Witness ==
    /\ mpc = "returned" /\ stop_event
    /\ tasks[WDone] >= 1 /\ report.successful_views >= 1

C14_AcquireDestructive ==
    /\ [](got.streak > 0 =>
            /\ size(got.before) > 0 =>
                  got.proxy # None /\ size(pool) = size(got.before) - 1
            /\ size(got.before) = 0 => got.proxy = None /\ pool = got.before
            /\ got.streak = got.start => got.hits = got.start /\ is_empty(pool))
    /\ [][pool' = SubSeq(pool, 1 + Len(acquire_log') - Len(acquire_log), Len(pool))
                     \o Concat(SubSeq(load_log', Len(load_log) + 1, Len(load_log')))
         ]_vars

C14_Witness ==
    /\ got.streak = got.start /\ got.start >= 2
    /\ Len(load_log) >= 2 /\ is_empty(pool)

\* C15: after any sequence of load and acquire, is_critical() is true
\* exactly when the number of proxies loaded and not yet acquired is below
\* the threshold: an empty pool is critical for a threshold of 1 or more,
\* and no pool is critical for threshold 0.
C15_CriticalIffBelowThreshold ==
    /\ is_critical(pool)
          <=> (Len(Concat(load_log)) - Len(acquire_log) < critical_threshold)
    /\ (is_empty(pool) /\ critical_threshold >= 1) => is_critical(pool)
    /\ critical_threshold = 0 => ~is_critical(pool)

C15_Witness ==
    /\ Len(Concat(load_log)) = 3 /\ Len(acquire_log) = 2
    /\ critical_threshold = 2 /\ is_critical(pool)

C17_RoundRobinCoversAll ==
    (/\ Len(sessions) >= 1
     /\ \A i \in 1..Len(sessions) : Eligible(sessions[i])
     /\ Len(picks) = Len(sessions))
       => { picks[k] : k \in 1..Len(picks) } = 1..Len(sessions)

C17_Witness ==
    /\ Len(sessions) = 2 /\ \A i \in 1..2 : Eligible(sessions[i])
    /\ picks = <<2, 1>> /\ today = 1

\* C18: get_next_session never returns a session that is inactive, in
\* cooldown, or at or above its daily limit for the current date; it
\* returns None exactly when no session is eligible.
C18_OnlyEligibleReturned ==
    selected.called =>
        /\ selected.ret # None => selected.ret \in selected.eligible
        /\ selected.ret = None <=> selected.eligible = {}

C18_Witness ==
    /\ selected.called /\ selected.ret = 2 /\ selected.eligible = {2}
    /\ sessions[1].is_active /\ sessions[1].cooldown_until > now

\* C19: a view attempt runs FetchCookie, FetchKey, Register in this order,
\* each at most once; FetchKey is attempted only after FetchCookie gave a
\* non-empty cookie, Register only after FetchKey gave a non-empty key; a
\* missing or empty Set-Cookie fails the attempt with FetchCookie alone
\* attempted.
Steps == <<"FetchCookie", "FetchKey", "Register">>

C19_StepsInOrder ==
    /\ Len(view.log) <= 3 /\ view.log = SubSeq(Steps, 1, Len(view.log))
    /\ Len(view.log) >= 2 =>
          /\ net.header.kind = "value"
          /\ net.header.str # <<>> /\ Head(net.header.str) # ";"
          /\ ~view.cookie.none /\ view.cookie.str # <<>>
    /\ Len(view.log) = 3 =>
          /\ net.text.kind = "value"
          /\ ~view.view_key.none /\ view.view_key.str # <<>>
    /\ (net.header.kind \in {"absent", "value"}
          /\ before_first(net.header.str, ";") = <<>>)
          => /\ view.pc = "done" /\ view.result = "failure"
             /\ view.log = <<"FetchCookie">>

C19_Witness ==
    /\ view.pc = "done" /\ view.result = "failure" /\ view.log = <<"FetchCookie">>
    /\ net.header.kind = "value"
    /\ net.header.str = <<";", "a">>

\* C20: execute_view never raises: an exception at the making of the
\* connector or in any of the three steps gives Failure; it returns Success
\* exactly when all three steps were completed, Register being completed by
\* any response whatever its status.
C20_ViewNeverRaises ==
    /\ view.result \in {"pending", "success", "failure"}
    /\ view.pc = "done" <=> view.result # "pending"
    /\ view.result = "success"
          <=> /\ view.pc = "done" /\ view.log = Steps
              /\ ~view.cookie.none /\ ~view.view_key.none
              /\ net.status \in Statuses
    /\ ( \/ net.connector = "raise" \/ net.status = "raise"
         \/ net.header.kind = "raise" \/ net.text.kind = "raise" )
          => view.pc = "done" /\ view.result = "failure"

C20_Witness ==
    /\ view.result = "success" /\ net.status = "500"
    /\ net.text.str = <<"k", "M", "k">>

\* -------------------------------------------------------------- hunter
\* the position of the first entry of list l that has key k
FirstAt(l, k) ==
    CHOOSE i \in 1..Len(l) :
        to_key(l[i]) = k /\ \A j \in 1..(i - 1) : to_key(l[j]) # k

\* out holds, in the order of l, the first entry of l for each of its keys
FirstOccurrences(l, out) ==
    /\ \A i, j \in 1..Len(out) : i # j => to_key(out[i]) # to_key(out[j])
    /\ { to_key(out[i]) : i \in 1..Len(out) } = { to_key(l[i]) : i \in 1..Len(l) }
    /\ \A i \in 1..Len(out) : out[i] = l[FirstAt(l, to_key(out[i]))]
    /\ \A i, j \in 1..Len(out) :
         i < j => FirstAt(l, to_key(out[i])) < FirstAt(l, to_key(out[j]))

\* C21: the list _deduplicate returns has no two entries with the same
\* host:port key, has the keys of its input, and keeps for each key the
\* first entry of the input, in input order.
C21_DedupKeepsFirst ==
    hunt.pc = "done" => FirstOccurrences(hunt.all_proxies, hunt.unique)

\* a key came three times, with another protocol and credentials later on
C21_Witness ==
    /\ hunt.pc = "done"
    /\ Len(hunt.all_proxies) = 3 /\ Len(hunt.unique) = 2
    /\ hunt.all_proxies[1].protocol = "http"
    /\ hunt.all_proxies[3].protocol = "https"
    /\ to_key(hunt.all_proxies[1]) = to_key(hunt.all_proxies[3])
    /\ hunt.unique[1] = hunt.all_proxies[1]

\* the proxies of the sources that did not fail, in source order, each as
\* its source types it
Good(fetched) ==
    Concat([k \in 1..Len(fetched) |->
              IF fetched[k].kind = "ok"
              THEN [n \in 1..Len(fetched[k].parsed) |->
                      coerce(fetched[k].parsed[n], sources[k])]
              ELSE <<>>])

\* C22: hunt_all fetches every source whatever the others did, and returns
\* the deduplicated proxies of the sources that answered 200, in source
\* order; a failing source contributes nothing.
C22_HuntToleratesFailures ==
    hunt.pc = "done" =>
        /\ Len(hunt.fetched) = Len(sources)
        /\ FirstOccurrences(Good(hunt.fetched), hunt.unique)

\* a source answered another status with a proxy in its body, and the
\* source after it was fetched and gave the result
C22_Witness ==
    /\ hunt.pc = "done"
    /\ Len(sources) = 2
    /\ hunt.fetched[1].kind = "status" /\ Len(hunt.fetched[1].parsed) = 1
    /\ hunt.fetched[2].kind = "ok" /\ Len(hunt.fetched[2].parsed) = 2
    /\ Len(hunt.unique) = 1
    /\ hunt.fetched[1].parsed[1] \notin { hunt.unique[i] : i \in 1..Len(hunt.unique) }

\* ------------------------------------------------------- health checker
\* both requests of the probe of candidate i were answered with status 200
BothOk(i) == check.probes[i].main = "200" /\ check.probes[i].embed = "200"

\* C23: check_all returns one entry for each probe whose two requests both
\* succeeded and no other, fastest first; a probe that raised is not alive.
C23_AliveSortedByTime ==
    check.pc = "done" =>
        LET alive == check.alive
        IN  /\ \A k, l \in 1..Len(alive) : k # l => alive[k] # alive[l]
            /\ { alive[k] : k \in 1..Len(alive) }
                 = { i \in 1..Len(candidates) : BothOk(i) }
            /\ \A i \in 1..Len(candidates) : check.probes[i].error => ~BothOk(i)
            /\ \A k \in 1..(Len(alive) - 1) :
                 check.probes[alive[k]].response_time_ms
                   <= check.probes[alive[k + 1]].response_time_ms
            /\ Len(check.healthy) = Len(alive)
            /\ \A k \in 1..Len(alive) : check.healthy[k] = candidates[alive[k]]

\* the second candidate was faster than the first and comes first
C23_Witness ==
    /\ check.pc = "done"
    /\ Len(candidates) = 2 /\ candidates[1] # candidates[2]
    /\ check.alive = <<2, 1>>
    /\ check.healthy = <<candidates[2], candidates[1]>>
    /\ check.probes[1].response_time_ms > check.probes[2].response_time_ms

\* -------------------------------------------------------- format parser
\* C24: the parse of the format of a valid proxy is that proxy.
C24_RoundTrip == codec.pc = "parsed" => codec.parsed = codec.proxy

\* --------------------------------------------------------------- worker
\* C25: a worker sleeps its jitter before every target but the first, never
\* before the first, and every delay it draws lies between jitter_min_ms and
\* jitter_max_ms.
C25_JitterBetweenTargets ==
    /\ [](wevent.sleeps
            => jitter_min_ms <= wevent.jitter /\ wevent.jitter <= jitter_max_ms)
    /\ [][\A i \in 1..MaxTargets :
            tasks'[WView(i)] > tasks[WView(i)]
              => IF i = 1
                 THEN tasks'[WSem] < tasks[WSem] /\ ~wevent'.sleeps
                 ELSE tasks'[WJitter(i)] < tasks[WJitter(i)]]_vars
    /\ [][\A i \in 2..MaxTargets :
            tasks'[WJitter(i)] > tasks[WJitter(i)] <=> (wevent'.sleeps /\ wevent'.url = i - 1)]_vars

\* a worker sleeps before its second target, for the longest delay of a
\* range that is not a single value
C25_Witness ==
    /\ tasks[WJitter(2)] > 0 /\ wevent.sleeps /\ wevent.url = 1
    /\ jitter_min_ms < wevent.jitter /\ wevent.jitter = jitter_max_ms

\* the step awaited on_view_success
Invoked(e) == e.view # "none" /\ e.callback # "not_called"

\* C26: the callback is awaited once for every successful view and for no
\* failed one; when it raises, the view stays counted as successful, no
\* failure is counted and the worker goes on to its next target.
C26_CallbackOncePerSuccess ==
    /\ [][Invoked(wevent')
            <=> (reaction_enabled
                 /\ report'.successful_views = report.successful_views + 1)]_vars
    /\ [][wevent'.view = "failure" => wevent'.callback = "not_called"]_vars
    /\ [][wevent'.callback = "raised"
            => /\ report'.failed_views = report.failed_views
               /\ report'.successful_views = report.successful_views
                     + (IF wevent'.view = "success" THEN 1 ELSE 0)
               /\ LET i == wevent'.url
                  IN  IF i < event_urls /\ ~stop_event
                      THEN tasks'[WJitter(i + 1)] = tasks[WJitter(i + 1)] + 1
                      ELSE tasks'[WDone] = tasks[WDone] + 1]_vars

\* the callback raised after it had suspended; the worker sleeps before its
\* second target with one success and no failure in the report
C26_Witness ==
    /\ wevent.callback = "raised" /\ wevent.view = "none" /\ wevent.url = 1
    /\ report.successful_views = 1 /\ report.failed_views = 0
    /\ tasks[WJitter(2)] = 1

\* C27: at no time do two workers await the success callback, that is, are
\* two calls of react_to_post in progress on the one session manager.
C27_ReactionsSequential ==
    SumOver(tasks, { WCallback(i) : i \in 1..MaxTargets }) <= 1

\* ------------------------------------------------------ process manager
\* the cycle threads that are in the body of _run_cycle
RunningThreads == { t \in 1..Len(cycles) : cycles[t].thread = "running" }

\* C28: two cycle threads are never alive together (here: never both in the
\* body of their cycle, which is less than is_alive).
C28_OneCycleAtATime == Cardinality(RunningThreads) <= 1

\* ---------------------------------------------------------- orchestrator
\* C29: once the stop signal is set no proxy leaves the pool any more, that
\* is, run_cycle is not called on a pool that holds proxies.
C29_NoDispatchAfterStop == [][stop_event => Len(pool') >= Len(pool)]_vars

\* a background refill task is made in this step
Launched == refill_task'.pc = "created" /\ refill_task.pc # "created"

\* C30: a background refill is launched only in a loop pass that found the
\* pool non-empty and critical and no earlier refill task unfinished; the
\* pass has gone on to dispatch the cycle on that pool while the task has
\* not run yet.
C30_BackgroundRefillLaunch ==
    [][Launched
         => /\ refill_task.pc \in {"none", "done"}
            /\ ~stop_event
            /\ dispatched' /\ pool' = <<>>
            /\ report' = NewReport(report'.total_proxies)
            /\ report'.total_proxies >= 1
            /\ report'.total_proxies < critical_threshold
            /\ event_urls > 0 => mpc' = "cycle"]_vars

\* the cycle is dispatched on a pool of one proxy, its worker created, and
\* the refill task is made and has not run yet
C30_Witness ==
    /\ refill_task.pc = "created" /\ mpc = "cycle"
    /\ report.total_proxies = 1 /\ tasks[WSem] = 1 /\ pool = <<>>

\* --------------------------------------------------------------- latency
\* C31: on every successful attempt the average becomes
\* (old_avg + new_elapsed) / 2, and a failed attempt leaves it unchanged.
C31_AverageHalvedAlways ==
    /\ latency.outcome = "success"
          => 2 * latency.avg_response_time_ms = latency.old_avg + latency.elapsed_ms
    /\ latency.outcome = "failure"
          => latency.avg_response_time_ms = latency.old_avg

\* C31 amended: a successful attempt that finds the average at 0.0 (the
\* first success of a cycle) sets it to new_elapsed; any other successful
\* attempt sets it to (old_avg + new_elapsed) / 2; a failed attempt leaves
\* it unchanged.
C31_AverageSeededThenHalved ==
    /\ (latency.outcome = "success" /\ latency.old_avg = 0)
          => latency.avg_response_time_ms = latency.elapsed_ms
    /\ (latency.outcome = "success" /\ latency.old_avg # 0)
          => 2 * latency.avg_response_time_ms = latency.old_avg + latency.elapsed_ms
    /\ latency.outcome = "failure"
          => latency.avg_response_time_ms = latency.old_avg

\* the first success of a cycle, after a failure, takes the longest time
C31_Witness ==
    /\ latency.outcome = "success"
    /\ latency.successful_views = 1 /\ latency.failed_views = 1
    /\ latency.old_avg = 0 /\ latency.elapsed_ms = MaxLatency * Scale
    /\ latency.avg_response_time_ms = MaxLatency * Scale

CountOn(s, d) == IF s.last_reset_date = d THEN s.daily_reaction_count ELSE 0

\* C33: a call of react_to_post that got a session ends by a success (count
\* plus one, no cooldown, True), by a rate-limit error (cooldown until now
\* plus the server's seconds, count unchanged, False) or by another error
\* (cooldown until now plus the default, count unchanged, False); a call
\* that got no session returns False and sends nothing.
C33_ReactionOutcomes ==
    /\ [][revent'.op = "finish"
            => LET i == revent'.session
               IN  /\ reacts[i] > 0
                   /\ CASE revent'.outcome = "sent" ->
                             /\ sessions' = [sessions EXCEPT
                                               ![i].daily_reaction_count = @ + 1]
                             /\ revent'.result = "true"
                        [] revent'.outcome = "flood" ->
                             /\ sessions' = [sessions EXCEPT
                                   ![i].cooldown_until = now + revent'.seconds]
                             /\ revent'.result = "false"
                        [] revent'.outcome = "error" ->
                             /\ sessions' = [sessions EXCEPT
                                   ![i].cooldown_until = now + Cooldown]
                             /\ revent'.result = "false"
                        [] OTHER -> FALSE]_vars
    /\ [][revent'.op = "call"
            => /\ (revent'.outcome = "no_session")
                    <=> ~\E i \in 1..Len(sessions) : Eligible(sessions[i])
               /\ revent'.outcome = "no_session"
                    => /\ revent'.result = "false" /\ reacts' = reacts
                       /\ \A i \in 1..Len(sessions) :
                            /\ sessions'[i].cooldown_until
                                 = sessions[i].cooldown_until
                            /\ CountOn(sessions'[i], today)
                                 = CountOn(sessions[i], today)
               /\ revent'.outcome = "no_client"
                    => LET i == revent'.session
                       IN  /\ revent'.result = "false" /\ reacts' = reacts
                           /\ sessions'[i].cooldown_until = now + Cooldown
                           /\ sessions'[i].daily_reaction_count
                                = CountOn(sessions[i], today)
               /\ revent'.outcome
                    \in {"no_session", "no_client", "suspended"}]_vars

\* a rate-limit error of more seconds than the default cooldown
C33_Witness ==
    /\ revent.op = "finish" /\ revent.outcome = "flood"
    /\ revent.seconds > Cooldown
    /\ sessions[revent.session].cooldown_until = now + revent.seconds

\* C34: a consultation resets the daily count of an active session it looks
\* at whose last reset date is not today, and stamps it with today, before
\* the quota check, so that an exhausted session out of cooldown is
\* selectable on a new date; a session stamped with today is not reset.
C34_DailyResetOnNewDate ==
    [][revent'.op \in {"has_active", "call"}
         => /\ \A i \in 1..Len(sessions) :
                 IF sessions[i].last_reset_date = today \/ ~sessions[i].is_active
                 THEN /\ sessions'[i].last_reset_date = sessions[i].last_reset_date
                      /\ sessions'[i].daily_reaction_count
                           = sessions[i].daily_reaction_count
                 ELSE \/ /\ sessions'[i].last_reset_date = today
                         /\ sessions'[i].daily_reaction_count = 0
                      \/ /\ sessions'[i].last_reset_date = sessions[i].last_reset_date
                         /\ sessions'[i].daily_reaction_count
                              = sessions[i].daily_reaction_count
            /\ revent'.session # 0
                 => sessions'[revent'.session].last_reset_date = today
            /\ (revent'.outcome = "no_session"
                  \/ (revent'.op = "has_active" /\ ~revent'.available))
                 => \A i \in 1..Len(sessions) :
                      sessions[i].is_active => sessions'[i].last_reset_date = today
            /\ (\E i \in 1..Len(sessions) :
                   /\ sessions[i].is_active /\ sessions[i].cooldown_until <= now
                   /\ sessions[i].last_reset_date # today
                   /\ sessions[i].daily_limit > 0)
                 => /\ revent'.outcome # "no_session"
                    /\ revent'.op = "has_active" => revent'.available]_vars

\* a session that was at its limit is handed out on the next date, its
\* count reset
C34_Witness ==
    /\ revent.op = "call" /\ revent.outcome = "suspended"
    /\ revent.before = DailyLimit
    /\ sessions[revent.session].daily_reaction_count = 0
    /\ sessions[revent.session].last_reset_date = today

\* C36: no session's daily count ever exceeds its daily limit.
C36_CountWithinLimit ==
    \A i \in 1..Len(sessions) :
        sessions[i].daily_reaction_count <= sessions[i].daily_limit

\* ----------------------------------------------------- source type coercion
\* the line spells its scheme out
ExplicitScheme(line) == has_substring(line, <<":", "/", "/">>)

\* C35: a proxy takes the type of its source only if its line gave no
\* scheme and the source is not mixed; a line with a scheme keeps the
\* protocol it names.
C35_ExplicitSchemeKept ==
    feed.pc = "typed" =>
        /\ (ExplicitScheme(feed.line) \/ feed.proxy_type = "mixed")
              => feed.proxy.protocol = feed.parsed.protocol
        /\ (~ExplicitScheme(feed.line) /\ feed.proxy_type # "mixed")
              => feed.proxy.protocol = feed.proxy_type

\* ------------------------------------------------------------ pool keys
\* C37: after any sequence of refills and dispatch cycles the pool never
\* holds two proxies with the same host:port key.
C37_PoolKeysDistinct ==
    \A i, j \in 1..Len(pool) : i # j => pool[i] # pool[j]

\* ------------------------------------------------------ attempts per cycle
\* the view attempts a worker in state w has behind it when the stop signal
\* was never set: all targets once it is done, the targets before the one
\* it sleeps or waits for, and the target whose callback it awaits
AttemptsBehind(w) ==
    CASE w.pc = "done" -> event_urls
      [] w.pc \in {"view", "jitter"} -> w.i - 1
      [] w.pc = "callback" -> w.i
      [] OTHER -> 0

AttemptsMade(t) == SumOver([w \in WStates |-> t[w] * AttemptsBehind(w)], WStates)

\* C38: in a cycle during which the stop signal is never set every drained
\* proxy makes one view attempt per target, in target order: the report
\* counts as many attempts as the workers have behind them, and at return
\* successful_views + failed_views is total_proxies times the number of
\* targets.
C38_OneAttemptPerProxyAndTarget ==
    (mpc \in {"cycle", "caller_done"} /\ ~stop_event) =>
        /\ report.successful_views + report.failed_views = AttemptsMade(tasks)
        /\ mpc = "caller_done" =>
              report.successful_views + report.failed_views
                = report.total_proxies * event_urls

C38_Witness ==
    /\ mpc = "caller_done" /\ ~stop_event
    /\ report.total_proxies >= 2 /\ event_urls >= 2
    /\ report.successful_views >= 1 /\ report.failed_views >= 1

\* C39: every proxy run_cycle removed from the pool is used for at least
\* one view attempt unless the stop signal is set during the cycle: a cycle
\* that returns with the stop signal never set has counted at least one
\* attempt per drained proxy.
C39_DrainedProxiesUsed ==
    (mpc = "caller_done" /\ ~stop_event) =>
        report.successful_views + report.failed_views >= report.total_proxies

\* ---------------------------------------------------------- refill mutex
\* C40: the refill lock is released on every way out of a refill: it is
\* held exactly while its holder is inside hunt or check (the load follows
\* the check without an await), and whoever waits for the lock gets past
\* the wait, by acquiring it or by being cancelled.
C40_RefillLockReleased ==
    /\ []((refill_lock = "main") <=> InRefill(mpc))
    /\ []((refill_lock = "bg") <=> InRefill(refill_task.pc))
    /\ (mpc = "lockwait") ~> (mpc # "lockwait")
    /\ (refill_task.pc = "lockwait") ~> (refill_task.pc # "lockwait")

\* the synchronous refill holds the lock after the background task ended
\* without leaving anything in the pool
C40_Witness ==
    /\ mpc = "hunt" /\ mctx = "sync" /\ refill_lock = "main"
    /\ refill_task.pc = "done" /\ pool = <<>>

====
